---- MODULE Spec2Model ----
(***************************************************************************)
(* Model of vintage-maeve/mimir:                                           *)
(*   pkg/compactor/bucket_compactor.go  Syncer, BucketCompactor            *)
(*   pkg/compactor/compactor.go         MultitenantCompactor, sharding     *)
(*   pkg/distributor/distributor.go     the push middlewares (part_003)    *)
(* One tenant's bucket is compacted by BucketCompactor.Compact (Spec); the *)
(* multi-tenant loop, the ring ownership, the goroutines of a compactor    *)
(* and the push pipeline of the distributor have specifications of their   *)
(* own (SpecUsers, SpecRing, SpecPool, SpecPush) over their own variables. *)
(***************************************************************************)
EXTENDS Integers, Sequences, FiniteSets, TLC

(***************************************************************************)
(* Bounds of the model.                                                    *)
(***************************************************************************)
NumBlocks == 3
\* source (level 1) blocks in the tenant's bucket at the start
MaxNewBlocks == 3
\* blocks the compactor may create in one group (compaction outputs, repaired blocks)
MaxPasses == 2
\* passes of the "for" loop of one Compact call
MaxCalls == 2
\* Compact calls on the same bucket
NumInstances == 3
\* compactor instances that may join the ring
MaxShardSize == 2
\* largest compactor tenant shard size configured (0 is the whole ring)
MaxRuns == 2
\* compactUsers runs of the running loop: the initial one and the ticks
CompactionRetries == 2
\* compactorCfg.CompactionRetries, the MaxRetries of the backoff

MaxConcurrency == 2
\* largest compaction concurrency configured for a BucketCompactor
MaxBlockSync == 2
\* largest blockSyncConcurrency configured
PoolJobs == 3
\* jobs of the pass in which the degree of concurrency is observed
MaxSeries == 2
\* series of a write request
MaxMetadata == 2
\* metadata entries of a write request
MaxT == 6
\* timestamps of the samples of one series
MaxSeeks == 2
\* Seek calls on one iterator
MaxSeekT == 4
\* timestamps of the samples of a series that is sought in
NumIngesters == 3
\* ingesters that one DoBatch sends to (the replication factor)
MaxSeriesCount == 2
\* series count an ingester reports for one label value
MaxReplicationFactor == 3
\* replication factor of the ingesters ring
NumReaders == 2
\* index-header readers asked of one ReaderPool
IdleTimeout == 10
\* lazyReaderIdleTimeout, in units of the pool's clock
SnapshotPeriod == 3
\* the period of the snapshot goroutine, in units of the pool's clock
MaxUsedAt == 2
\* the latest usedAt of a reader, in units of the readers' clock
Millisecond == 2
\* "int64(time.Millisecond)" in units of the readers' clock
MaxTextLen == 5
\* words and separators in a text given to HistogramTypes.UnmarshalText
MaxTypes == 2
\* histogram types in a list given to HistogramTypes.MarshalText
NumRequests == 3
\* push requests that are in the distributor at the same time
MaxInflight == 2
\* the largest MaxInflightPushRequests of the instance limits
MaxRequestSize == 2
\* the largest req.Size() of a push request
MaxSends == 2
\* the per-ingester sends of one DoBatch
NumKeyTokens == 2
\* the tokens that series and metadata of one request hash to
NumCallers == 3
\* goroutines that call one QueryLimiter
MaxLimiterCalls == 3
\* calls made on one QueryLimiter
MaxAmount == 2
\* chunks, or chunk bytes, added by one call
MaxLimit == 2
\* the greatest limit a QueryLimiter is made with
NumQuerySeries == 3
\* distinct series a query adds to its limiter

SourceIDs == 1..NumBlocks
Jobs == {1, 2}
Workers == {1, 2}
ZeroULID == 0

VARIABLES
  bkt,      \* the tenant's bucket: metas, deletion marks, no-compact marks
  stats,    \* what the health check and the meta say of each source block
  sy,       \* Syncer: blocks (s.blocks), dups (DuplicateIDs of the last fetch)
  env,      \* the iteration context and the blocks uploaded within the wait period
  cp,       \* BucketCompactor.Compact: position and locals of the dispatcher
  wk,       \* the worker goroutines of the current pass
  met,      \* BucketCompactorMetrics and syncerMetrics counters
  hist,     \* what the current pass and call have done (read by the properties)
  rg,       \* the compactor ring: state and heartbeat of each instance
  ob,       \* the answers every instance got under the ring rg for one key
  mc,       \* MultitenantCompactor: running, compactUsers and its metrics
  pl,       \* a BucketCompactor's goroutines: the workers and their ForEachJob calls
  ds,       \* Distributor: one push request on its way through PushWithMiddlewares
  se,       \* one series: through validateSeries, and under a concreteSeriesIterator
  sn,       \* Distributor.push: the contexts and the per-ingester sends of one DoBatch
  cd,       \* labelValuesCardinalityConcurrentMap of one LabelValuesCardinality call
  rp,       \* ReaderPool: the clock, the lazy readers and the two background goroutines
  sp,       \* HeadersLazyLoadedTracker: its State and the snapshot file
  ht,       \* HistogramTypes: a text, a list, and what Marshal and Unmarshal make of them
  fl,       \* Distributor: concurrent push requests and the inflight counters
  ks,       \* Distributor.push: the keys of one request and the requests to the ingesters
  ql        \* QueryLimiter: its counters and the calls made on it

cvars == <<bkt, stats, sy, env, cp, wk, met, hist>>

rvars == <<rg, ob>>

xvars == <<se, sn, cd, rp, sp>>

yvars == <<ht, fl, ks, ql>>

vars == <<cvars, rvars, mc, pl, ds, xvars, yvars>>

\* what the steps of Compact leave alone
FrameC == UNCHANGED <<rvars, mc, pl, ds, xvars, yvars>>

\* what the steps of the ring and of the sharding strategies leave alone
FrameR == UNCHANGED <<cvars, mc, pl, ds, xvars, yvars>>

\* what the steps of running and compactUsers leave alone
FrameU == UNCHANGED <<cvars, rvars, pl, ds, xvars, yvars>>

\* what the goroutines of the worker pool leave alone
FrameP == UNCHANGED <<cvars, rvars, mc, ds, xvars, yvars>>

\* what the stages of a push leave alone
FrameD == UNCHANGED <<cvars, rvars, mc, pl, xvars, yvars>>

\* what is left alone by all but the compactor and the push pipeline
FrameX == UNCHANGED <<cvars, rvars, mc, pl, ds, yvars>>

\* what the steps on one series leave alone
FrameS == FrameX /\ UNCHANGED <<sn, cd, rp, sp>>

\* what the sends of a push leave alone
FrameN == FrameX /\ UNCHANGED <<se, cd, rp, sp>>

\* what the steps of a cardinality call leave alone
FrameK == FrameX /\ UNCHANGED <<se, sn, rp, sp>>

\* what the steps of the reader pool leave alone
FrameRP == FrameX /\ UNCHANGED <<se, sn, cd, sp>>

\* what the steps of the snapshot leave alone
FrameSP == FrameX /\ UNCHANGED <<se, sn, cd, rp>>

\* what is left alone by the histogram types, the inflight requests, the keys of
\* a push and the query limiter
FrameY == UNCHANGED <<cvars, rvars, mc, pl, ds, xvars>>

\* what the conversions of histogram types leave alone
FrameHT == FrameY /\ UNCHANGED <<fl, ks, ql>>

\* what the concurrent push requests leave alone
FrameFL == FrameY /\ UNCHANGED <<ht, ks, ql>>

\* what the routing of a push leaves alone
FrameKS == FrameY /\ UNCHANGED <<ht, fl, ql>>

\* what the calls on a query limiter leave alone
FrameQL == FrameY /\ UNCHANGED <<ht, fl, ks>>

----------------------------------------------------------------------------
(***************************************************************************)
(* Helpers.                                                                *)
(***************************************************************************)
RECURSIVE SortedSeq(_)
SortedSeq(S) ==
  IF S = {} THEN <<>>
  ELSE LET m == CHOOSE x \in S : \A y \in S : x <= y
       IN <<m>> \o SortedSeq(S \ {m})

SeqToSet(s) == {s[i] : i \in 1..Len(s)}

\* a variant that takes any returned ULID, zero or not, for an output block
hasAnyULIDs(ids) == Len(ids) > 0

\* hasNonZeroULIDs
hasNonZeroULIDs(ids) == \E i \in 1..Len(ids) : ids[i] # ZeroULID

\* convertCompactionResultToForEachJobs: the non-empty output blocks
convertCompactionResultToForEachJobs(compIDs) ==
  {compIDs[i] : i \in {k \in 1..Len(compIDs) : compIDs[k] # ZeroULID}}

----------------------------------------------------------------------------
(***************************************************************************)
(* The bucket and the block metas.                                         *)
(***************************************************************************)
HealthKinds == {"ok", "critical", "ooo", "i347", "oooLabels"}

\* group key of a source block (DefaultGroupKey: resolution@hash(labels))
DefaultGroupKey(id) == ((id - 1) % 2) + 1

\* Job.SplittingShards: job 1 is a splitting job, job 2 a merge job
SplittingShards(job) == IF job = 1 THEN 2 ELSE 1

UseSplitting(job) == SplittingShards(job) > 1

Present(b) == DOMAIN b.metas

Level(b, id) == b.metas[id].level

\* stats.*Err of GatherBlockHealthStats; created blocks are healthy
Health(id) == IF id \in SourceIDs THEN stats.health[id] ELSE "ok"

\* meta.Stats.NumSamples == 0
NoSamples(id) == id \in stats.noSamples

\* IgnoreDeletionMarkFilter: the blocks the fetcher keeps
WithoutMarkedForDeletion(b) == Present(b) \ b.del

\* DeduplicateFilter: blocks whose sources are covered by a block of a higher level
DuplicateIDs(b, cand) ==
  {x \in cand : \E y \in cand :
     /\ y # x
     /\ b.metas[y].job = b.metas[x].job
     /\ Level(b, y) > Level(b, x)
     /\ b.metas[x].srcs \subseteq b.metas[y].srcs}

\* NoCompactionMarkFilter.Filter with removeNoCompactBlocks = true
NoCompactionMarkFilter(b, m) == m \ b.nc

\* MetaFetcher.FetchWithoutMarkedForDeletion: the metas handed to the Syncer
FetchWithoutMarkedForDeletion(b) ==
  NoCompactionMarkFilter(b, WithoutMarkedForDeletion(b))

\* Grouper.Groups: one job per group key present in the synced blocks
JobMetas(b, blocks, job) == {id \in blocks : b.metas[id].job = job}

Groups(b, blocks) == {j \in Jobs : JobMetas(b, blocks, j) # {}}

\* Planner.Plan: the blocks of the job still at the source level
Plan(b, blocks, job) == {id \in JobMetas(b, blocks, job) : Level(b, id) = 1}

\* jobWaitPeriodElapsed: no block of the job was uploaded within the wait period
jobWaitPeriodElapsed(b, blocks, job, recent) ==
  JobMetas(b, blocks, job) \cap recent = {}

----------------------------------------------------------------------------
(***************************************************************************)
(* Worker goroutines of BucketCompactor.Compact.                           *)
(***************************************************************************)
NoMk == [blk |-> 0, kind |-> "none", ctx |-> "none"]

IdleWorker ==
  [st |-> "idle", job |-> 0, plan |-> {}, outs |-> <<>>, toUp |-> {},
   todo |-> <<>>, marked |-> {}, up |-> {}, err |-> "nil", eb |-> 0,
   rerun |-> FALSE, mk |-> NoMk, rstage |-> "none"]

\* states in which runCompactionJob is executing
InJob == {"plan", "download", "compact", "upload", "mark", "emptydel"}

InitStats ==
  {[health |-> h, noSamples |-> n] :
     h \in {f \in [SourceIDs -> HealthKinds] : \A i \in SourceIDs \ {1} : f[i] = "ok"},
     n \in {{}, {1}}}

\* the n-th ULID generated for a block of the group of job
NewULID(job, n) == NumBlocks + (n - 1) * Cardinality(Jobs) + job

\* the source blocks the ingesters shipped
SourceMetas ==
  [id \in SourceIDs |-> [job |-> DefaultGroupKey(id), level |-> 1, srcs |-> {id}]]

\* the bucket before the first run; with leftover, an earlier compaction of block 2
\* uploaded its output and failed before it marked its source
InitBucket(leftover) ==
  IF leftover
    THEN [metas |-> (NewULID(2, 1) :> [job |-> 2, level |-> 2, srcs |-> {2}]) @@ SourceMetas,
          del |-> {}, nc |-> {}, verified |-> {NewULID(2, 1)},
          made |-> [j \in Jobs |-> IF j = 2 THEN 1 ELSE 0]]
    ELSE [metas |-> SourceMetas,
          del |-> {}, nc |-> {}, verified |-> {}, made |-> [j \in Jobs |-> 0]]

InitC ==
  /\ bkt \in {InitBucket(FALSE), InitBucket(TRUE)}
  /\ stats \in InitStats
  /\ bkt = InitBucket(TRUE) =>
       stats = [health |-> [i \in SourceIDs |-> "ok"], noSamples |-> {}]
  /\ sy = [blocks |-> {}, dups |-> {}]
  /\ env \in {[ctxDone |-> FALSE, recent |-> r] : r \in {{}, {NumBlocks}}}
  /\ cp = [pc |-> "idle", pass |-> 0, calls |-> 0, jobQ |-> <<>>, gcTodo |-> <<>>,
           gcMk |-> NoMk, errChan |-> {}, jobErrs |-> {}, finishedAllJobs |-> TRUE,
           maxCompactionTimeReached |-> FALSE, rerr |-> "none"]
  /\ wk = [w \in Workers |-> IdleWorker]
  /\ met = [started |-> 0, completed |-> 0, failed |-> 0, compactions |-> 0]
  /\ hist = [selected |-> {}, handed |-> {}, ran |-> {}, skipped |-> {}, denied |-> {},
             passMarks |-> {}, waitErr |-> {}, waited |-> {},
             ooo |-> {}, ncMarked |-> {}, ncFailed |-> {},
             i347 |-> {}, repaired |-> {}, repairFailed |-> {}, done |-> {},
             planned |-> FALSE, uploaded |-> FALSE, wrote |-> FALSE,
             prevOK |-> FALSE, prevRan |-> {}, extra |-> FALSE]

----------------------------------------------------------------------------
(***************************************************************************)
(* Syncer.SyncMetas, Syncer.GarbageCollect and the dispatcher of           *)
(* BucketCompactor.Compact.                                                *)
(***************************************************************************)
\* a return of Compact with result r ("nil" or "err")
Return(r, errs) ==
  cp' = [cp EXCEPT !.pc = "idle", !.rerr = r, !.jobQ = <<>>, !.gcTodo = <<>>,
                   !.gcMk = NoMk, !.errChan = {}, !.jobErrs = errs]

\* the locals of one pass of the loop: channels, workers, finishedAllJobs
ResetPass(h) ==
  [h EXCEPT !.selected = {}, !.handed = {}, !.ran = {}, !.skipped = {}, !.denied = {},
            !.passMarks = {}, !.waitErr = {}, !.waited = {},
            !.ooo = {}, !.ncMarked = {}, !.ncFailed = {},
            !.i347 = {}, !.repaired = {}, !.repairFailed = {}]

\* BucketCompactor.Compact is entered: the locals of the call
EnterCompact ==
  /\ cp.pc = "idle" /\ cp.calls < MaxCalls /\ ~env.ctxDone
  /\ cp' = [cp EXCEPT !.pc = "sync", !.calls = @ + 1, !.pass = 1, !.rerr = "none",
                      !.jobErrs = {}, !.errChan = {}, !.finishedAllJobs = TRUE,
                      !.maxCompactionTimeReached = FALSE]
  /\ wk' = [w \in Workers |-> IdleWorker]
  /\ hist' = [ResetPass(hist) EXCEPT
                !.planned = FALSE, !.uploaded = FALSE, !.wrote = FALSE,
                !.prevOK = (cp.rerr = "nil" /\ ~cp.maxCompactionTimeReached),
                !.prevRan = hist.ran, !.extra = FALSE, !.done = {}]
  /\ met' = [started |-> 0, completed |-> 0, failed |-> 0, compactions |-> 0]
  /\ UNCHANGED <<bkt, stats, sy, env>> /\ FrameC

\* compactUser -> BucketCompactor.Compact is entered for the first time
CompactStart == cp.calls = 0 /\ EnterCompact

\* Compact is entered again on the bucket the last call left; the calls explored
\* are those that follow a nil return of a call that did not reach maxCompactionTime
CompactAgain ==
  /\ cp.calls > 0 /\ cp.rerr = "nil" /\ ~cp.maxCompactionTimeReached
  /\ EnterCompact

\* Syncer.SyncMetas
SyncMetas ==
  /\ cp.pc = "sync"
  /\ \/ /\ Return("err", {})
        /\ UNCHANGED sy
     \/ /\ ~env.ctxDone
        /\ sy' = [blocks |-> FetchWithoutMarkedForDeletion(bkt),
                  dups |-> DuplicateIDs(bkt, WithoutMarkedForDeletion(bkt))]
        /\ cp' = [cp EXCEPT !.pc = "gc", !.gcTodo = SortedSeq(sy'.dups)]
  /\ UNCHANGED <<bkt, stats, env, wk, met, hist>> /\ FrameC

\* a variant that keeps the marked duplicate in the map
GCDeleteNothing(blocks, id) == blocks

\* delete(s.blocks, id)
GCDelete(blocks, id) == blocks \ {id}

\* Syncer.GarbageCollect: the head of the loop over duplicateIDs
GarbageCollect ==
  /\ cp.pc = "gc" /\ cp.gcMk = NoMk
  /\ IF cp.gcTodo = <<>>
       THEN /\ cp' = [cp EXCEPT !.pc = "group"]
            /\ UNCHANGED hist
       ELSE IF env.ctxDone
         THEN Return("err", {}) /\ UNCHANGED hist
         ELSE /\ cp' = [cp EXCEPT !.gcMk =
                          [blk |-> Head(cp.gcTodo), kind |-> "del", ctx |-> "fresh"]]
              /\ hist' = [hist EXCEPT !.wrote = TRUE]
  /\ UNCHANGED <<bkt, stats, sy, env, wk, met>> /\ FrameC

\* whether a marker write issued with context kind c can succeed
MarkerCanSucceed(c) == ~(c = "iter" /\ env.ctxDone)

\* Syncer.GarbageCollect: block.MarkForDeletion returns
GarbageCollectMarked ==
  /\ cp.pc = "gc" /\ cp.gcMk # NoMk
  /\ \/ /\ MarkerCanSucceed(cp.gcMk.ctx)
        /\ bkt' = [bkt EXCEPT !.del = @ \cup {cp.gcMk.blk}]
        /\ sy' = [sy EXCEPT !.blocks = GCDelete(@, cp.gcMk.blk)]
        /\ cp' = [cp EXCEPT !.gcMk = NoMk, !.gcTodo = Tail(@)]
     \/ /\ Return("err", {})
        /\ UNCHANGED <<bkt, sy>>
  /\ UNCHANGED <<stats, env, wk, met, hist>> /\ FrameC

\* the answers of c.ownJob: (true, nil), (false, nil) or an error
OwnJobAnswers == {"yes", "no", "err"}

\* filterOwnJobs: the jobs ownJob answers true for
filterOwnJobs(jobs, owns) == {j \in jobs : owns[j] = "yes"}

\* a variant that filters no job out
filterJobsKeepAll(jobs, werr) == jobs

\* filterJobsByWaitPeriod: werr are the jobs whose check failed (they are kept)
filterJobsByWaitPeriod(jobs, werr) ==
  {j \in jobs : jobWaitPeriodElapsed(bkt, sy.blocks, j, env.recent) \/ j \in werr}

\* sortJobs (JobsOrderFunc)
sortJobs(jobs) == SortedSeq(jobs)

\* Compact: grouper.Groups, filterOwnJobs, filterJobsByWaitPeriod, sortJobs
BuildJobs ==
  /\ cp.pc = "group"
  /\ LET jobs == Groups(bkt, sy.blocks) IN
     \/ Return("err", {}) /\ UNCHANGED hist
     \/ \E owns \in [jobs -> OwnJobAnswers] :
          IF \E j \in jobs : owns[j] = "err"
            THEN Return("err", {}) /\ UNCHANGED hist
            ELSE \E werr \in SUBSET {j \in filterOwnJobs(jobs, owns) :
                       ~jobWaitPeriodElapsed(bkt, sy.blocks, j, env.recent)} :
                   LET kept == filterJobsByWaitPeriod(filterOwnJobs(jobs, owns), werr) IN
                   /\ cp' = [cp EXCEPT !.pc = "dispatch", !.jobQ = sortJobs(kept)]
                   /\ hist' = [hist EXCEPT !.selected = kept, !.waitErr = werr,
                                 !.waited = filterOwnJobs(jobs, owns) \ kept]
  /\ UNCHANGED <<bkt, stats, sy, env, wk, met>> /\ FrameC

\* jobLoop: "case jobChan <- g" meets "for g := range jobChan" of worker w
SendJob(w) ==
  /\ cp.pc = "dispatch" /\ cp.jobQ # <<>> /\ wk[w].st = "idle"
  /\ \A v \in Workers : v < w => wk[v].st # "idle"
  /\ wk' = [wk EXCEPT ![w] = [IdleWorker EXCEPT !.st = "got", !.job = Head(cp.jobQ)]]
  /\ cp' = [cp EXCEPT !.jobQ = Tail(@)]
  /\ hist' = [hist EXCEPT !.handed = @ \cup {Head(cp.jobQ)}]
  /\ UNCHANGED <<bkt, stats, sy, env, met>> /\ FrameC

\* jobLoop: "case jobErr := <-errChan": break
ReceiveJobErr ==
  /\ cp.pc = "dispatch" /\ cp.jobQ # <<>>
  /\ \E e \in cp.errChan :
       cp' = [cp EXCEPT !.pc = "wait", !.errChan = @ \ {e}, !.jobErrs = @ \cup {e}]
  /\ UNCHANGED <<bkt, stats, sy, env, wk, met, hist>> /\ FrameC

\* jobLoop: "case <-maxCompactionTimeChan": the timer has fired by now; break
MaxCompactionTime ==
  /\ cp.pc = "dispatch" /\ cp.jobQ # <<>>
  /\ cp' = [cp EXCEPT !.pc = "wait", !.maxCompactionTimeReached = TRUE]
  /\ UNCHANGED <<bkt, stats, sy, env, wk, met, hist>> /\ FrameC

\* a variant that closes jobChan with a job still to send
AllJobsSentButLast(q) == Len(q) <= 1

\* the range over jobs is exhausted
AllJobsSent(q) == q = <<>>

\* jobLoop ends with every job sent: close(jobChan)
CloseJobChan ==
  /\ cp.pc = "dispatch" /\ AllJobsSent(cp.jobQ)
  /\ cp' = [cp EXCEPT !.pc = "wait"]
  /\ UNCHANGED <<bkt, stats, sy, env, wk, met, hist>> /\ FrameC

\* wg.Wait returned: collect errChan, then return or loop
PassDone ==
  /\ cp.pc = "wait" /\ \A w \in Workers : wk[w].st = "exited"
  /\ LET errs == cp.jobErrs \cup cp.errChan IN
     IF errs # {}
       THEN Return("err", errs) /\ UNCHANGED <<wk, hist>>
       ELSE IF cp.maxCompactionTimeReached \/ cp.finishedAllJobs
         THEN Return("nil", {}) /\ UNCHANGED <<wk, hist>>
         ELSE /\ cp.pass < MaxPasses
              /\ cp' = [cp EXCEPT !.pc = "sync", !.pass = @ + 1, !.jobErrs = {},
                                  !.errChan = {}, !.finishedAllJobs = TRUE]
              /\ wk' = [w \in Workers |-> IdleWorker]
              /\ hist' = ResetPass(hist)
  /\ UNCHANGED <<bkt, stats, sy, env, met>> /\ FrameC

----------------------------------------------------------------------------
(***************************************************************************)
(* The worker loop of Compact and runCompactionJob.                        *)
(***************************************************************************)
\* runCompactionJob returns (shouldRerun, compIDs, rerr)
Returned(r, e, blk, again) ==
  [r EXCEPT !.st = "ret", !.err = e, !.eb = blk, !.rerun = again,
            !.outs = IF e = "nil" /\ r.st = "mark" THEN r.outs ELSE <<>>,
            !.mk = NoMk]

\* a variant that runs the job when ownJob returns an error
OwnJobOKOrError(answer) == answer # "no"

\* "if ok, err := c.ownJob(g); err != nil {continue} else if !ok {continue}"
OwnJobOK(answer) == answer = "yes"

\* the worker re-checks the ownership of the job it received
CheckOwnJob(w) ==
  /\ wk[w].st = "got"
  /\ \E answer \in OwnJobAnswers :
       IF OwnJobOK(answer)
         THEN /\ wk' = [wk EXCEPT ![w].st = "plan"]
              /\ met' = [met EXCEPT !.started = @ + 1]
              /\ hist' = [hist EXCEPT !.ran = @ \cup {wk[w].job},
                            !.denied = IF answer = "yes" THEN @ ELSE @ \cup {wk[w].job},
                            !.extra = @ \/ wk[w].job \notin hist.prevRan]
         ELSE /\ wk' = [wk EXCEPT ![w] = IdleWorker]
              /\ hist' = [hist EXCEPT !.skipped = @ \cup {wk[w].job},
                            !.denied = IF answer = "yes" THEN @ ELSE @ \cup {wk[w].job}]
              /\ UNCHANGED met
  /\ UNCHANGED <<bkt, stats, sy, env, cp>> /\ FrameC

\* runCompactionJob: c.planner.Plan
PlanJob(w) ==
  /\ wk[w].st = "plan"
  /\ \/ /\ wk' = [wk EXCEPT ![w] = Returned(@, "plan", 0, FALSE)]
        /\ UNCHANGED hist
     \/ LET toCompact == Plan(bkt, sy.blocks, wk[w].job) IN
        IF toCompact = {}
          THEN /\ wk' = [wk EXCEPT ![w] = Returned(@, "nil", 0, FALSE)]
               /\ UNCHANGED hist
          ELSE /\ wk' = [wk EXCEPT ![w].st = "download", ![w].plan = toCompact]
               /\ hist' = [hist EXCEPT !.planned = TRUE]
  /\ UNCHANGED <<bkt, stats, sy, env, cp, met>> /\ FrameC

\* runCompactionJob: download and health-check every planned block
DownloadBlocks(w) ==
  /\ wk[w].st = "download"
  /\ \/ wk' = [wk EXCEPT ![w] = Returned(@, "download", 0, FALSE)]
     \/ /\ ~env.ctxDone
        /\ \E id \in wk[w].plan :
             /\ Health(id) # "ok"
             /\ wk' = [wk EXCEPT ![w] = Returned(@, Health(id), id, FALSE)]
     \/ /\ ~env.ctxDone
        /\ \A id \in wk[w].plan : Health(id) = "ok"
        /\ wk' = [wk EXCEPT ![w].st = "compact"]
  /\ UNCHANGED <<bkt, stats, sy, env, cp, met, hist>> /\ FrameC

\* the ULIDs of the output blocks: shard k gets a new ULID iff it has series
CompactionResult(job, nonEmpty, made) ==
  [k \in 1..SplittingShards(job) |->
     IF k \in nonEmpty
       THEN NewULID(job, made + 1 + Cardinality({x \in nonEmpty : x < k}))
       ELSE ZeroULID]

\* runCompactionJob: c.comp.Compact or c.comp.CompactWithSplitting
CompactBlocks(w) ==
  /\ wk[w].st = "compact"
  /\ \/ /\ wk' = [wk EXCEPT ![w] = Returned(@, "compact", 0, FALSE)]
        /\ UNCHANGED bkt
     \/ \E nonEmpty \in SUBSET (1..SplittingShards(wk[w].job)) :
          /\ (\A id \in wk[w].plan : NoSamples(id)) => nonEmpty = {}
          /\ bkt.made[wk[w].job] + Cardinality(nonEmpty) <= MaxNewBlocks
          /\ LET compIDs == CompactionResult(wk[w].job, nonEmpty, bkt.made[wk[w].job]) IN
             /\ bkt' = [bkt EXCEPT !.made[wk[w].job] = @ + Cardinality(nonEmpty)]
             /\ IF ~hasNonZeroULIDs(compIDs)
                  THEN wk' = [wk EXCEPT ![w].st = "emptydel", ![w].outs = compIDs,
                                ![w].todo = SortedSeq({id \in wk[w].plan : NoSamples(id)})]
                  ELSE wk' = [wk EXCEPT ![w].st = "upload", ![w].outs = compIDs,
                                ![w].toUp = convertCompactionResultToForEachJobs(compIDs)]
  /\ UNCHANGED <<stats, sy, env, cp, met, hist>> /\ FrameC

\* the meta of a block compacted from the blocks of plan
CompactedMeta(b, job, plan) ==
  [job |-> job,
   level |-> 1 + (CHOOSE l \in {Level(b, id) : id \in plan} :
                    \A id \in plan : Level(b, id) <= l),
   srcs |-> UNION {b.metas[id].srcs : id \in plan}]

\* a variant that leaves the last source unmarked
SourcesToMarkButLast(plan) == SubSeq(SortedSeq(plan), 1, Cardinality(plan) - 1)

\* the sources whose deletion markers the job writes after the uploads
SourcesToMark(plan) == SortedSeq(plan)

\* a variant that goes on to the markers with one upload still to do
UploadsDoneButOne(toUp) == Cardinality(toUp) <= 1

\* concurrency.ForEachJob over the non-empty output blocks has run every job
UploadsDone(toUp) == toUp = {}

\* runCompactionJob: verify and upload one output block, or go on to the markers
UploadBlock(w) ==
  /\ wk[w].st = "upload"
  /\ IF UploadsDone(wk[w].toUp)
       THEN /\ wk' = [wk EXCEPT ![w].st = "mark", ![w].todo = SourcesToMark(wk[w].plan)]
            /\ UNCHANGED <<bkt, hist>>
       ELSE \/ /\ wk' = [wk EXCEPT ![w] = Returned(@, "upload", 0, FALSE)]
               /\ UNCHANGED <<bkt, hist>>
            \/ /\ ~env.ctxDone
               /\ \E id \in wk[w].toUp :
                    /\ bkt' = [bkt EXCEPT
                         !.metas = (id :> CompactedMeta(bkt, wk[w].job, wk[w].plan)) @@ @,
                         !.verified = @ \cup {id}]
                    /\ wk' = [wk EXCEPT ![w].toUp = @ \ {id}, ![w].up = @ \cup {id}]
                    /\ hist' = [hist EXCEPT !.uploaded = TRUE]
  /\ UNCHANGED <<stats, sy, env, cp, met>> /\ FrameC

\* context of the marker write of deleteBlock: context.Background with a timeout
deleteBlockCtx == "fresh"

\* deleteBlock of the next source: os.RemoveAll, then block.MarkForDeletion begins
MarkSource(w) ==
  /\ wk[w].st = "mark" /\ wk[w].mk = NoMk
  /\ IF wk[w].todo = <<>>
       THEN /\ wk' = [wk EXCEPT ![w] = Returned(@, "nil", 0, TRUE)]
            /\ UNCHANGED hist
       ELSE \/ /\ wk' = [wk EXCEPT ![w] = Returned(@, "rmdir", 0, FALSE)]
               /\ UNCHANGED hist
            \/ /\ wk' = [wk EXCEPT ![w].mk =
                           [blk |-> Head(wk[w].todo), kind |-> "del", ctx |-> deleteBlockCtx]]
               /\ hist' = [hist EXCEPT !.wrote = TRUE]
  /\ UNCHANGED <<bkt, stats, sy, env, cp, met>> /\ FrameC

\* deleteBlock: block.MarkForDeletion returns
SourceMarked(w) ==
  /\ wk[w].st = "mark" /\ wk[w].mk # NoMk
  /\ \/ /\ MarkerCanSucceed(wk[w].mk.ctx)
        /\ bkt' = [bkt EXCEPT !.del = @ \cup {wk[w].mk.blk}]
        /\ wk' = [wk EXCEPT ![w].mk = NoMk, ![w].todo = Tail(@),
                            ![w].marked = @ \cup {wk[w].mk.blk}]
        /\ hist' = [hist EXCEPT !.passMarks = @ \cup {wk[w].mk.blk}]
     \/ /\ wk' = [wk EXCEPT ![w] = Returned(@, "mark", 0, FALSE)]
        /\ UNCHANGED <<bkt, hist>>
  /\ UNCHANGED <<stats, sy, env, cp, met>> /\ FrameC

\* no output block has samples: deleteBlock of the next source without samples
MarkEmptySource(w) ==
  /\ wk[w].st = "emptydel" /\ wk[w].mk = NoMk
  /\ IF wk[w].todo = <<>>
       THEN /\ wk' = [wk EXCEPT ![w] = Returned(@, "nil", 0, TRUE)]
            /\ UNCHANGED hist
       ELSE \/ /\ wk' = [wk EXCEPT ![w].todo = Tail(@)]
               /\ UNCHANGED hist
            \/ /\ wk' = [wk EXCEPT ![w].mk =
                           [blk |-> Head(wk[w].todo), kind |-> "del", ctx |-> deleteBlockCtx]]
               /\ hist' = [hist EXCEPT !.wrote = TRUE]
  /\ UNCHANGED <<bkt, stats, sy, env, cp, met>> /\ FrameC

\* the marker write of an empty source returns; a failure is only logged
EmptySourceMarked(w) ==
  /\ wk[w].st = "emptydel" /\ wk[w].mk # NoMk
  /\ \/ /\ MarkerCanSucceed(wk[w].mk.ctx)
        /\ bkt' = [bkt EXCEPT !.del = @ \cup {wk[w].mk.blk}]
        /\ wk' = [wk EXCEPT ![w].mk = NoMk, ![w].todo = Tail(@),
                            ![w].marked = @ \cup {wk[w].mk.blk}]
        /\ hist' = [hist EXCEPT !.passMarks = @ \cup {wk[w].mk.blk}]
     \/ /\ wk' = [wk EXCEPT ![w].mk = NoMk, ![w].todo = Tail(@)]
        /\ UNCHANGED <<bkt, hist>>
  /\ UNCHANGED <<stats, sy, env, cp, met>> /\ FrameC

\* a variant in which blocks with out-of-order chunks are not skipped
skipBlocksNever == FALSE

\* skipBlocksWithOutOfOrderChunks, as compactUser constructs the BucketCompactor
skipBlocksWithOutOfOrderChunks == TRUE

\* context Compact passes to block.MarkForNoCompact: its own ctx
markForNoCompactCtx == "iter"

\* a variant that asks for another pass after every job
FinishedNever(finished, shouldRerunJob) == FALSE

\* a variant that ignores shouldRerunJob
FinishedAfterIgnoringRerun(finished, shouldRerunJob) == finished

\* "if shouldRerunJob {finishedAllJobs = false}"
FinishedAfter(finished, shouldRerunJob) == IF shouldRerunJob THEN FALSE ELSE finished

\* a variant that counts a run as completed only when it produced a block
RunCompletedOnlyWithOutput(m, outs) ==
  IF hasNonZeroULIDs(outs)
    THEN [m EXCEPT !.completed = @ + 1, !.compactions = @ + 1]
    ELSE m

\* "groupCompactionRunsCompleted.Inc(); if hasNonZeroULIDs(compactedBlockIDs)
\* {groupCompactions.Inc()}"
RunCompleted(m, outs) ==
  [m EXCEPT !.completed = @ + 1,
            !.compactions = IF hasNonZeroULIDs(outs) THEN @ + 1 ELSE @]

\* "errChan <- errors.Wrapf(err, ...); return"
SendErr(w) ==
  /\ cp' = [cp EXCEPT !.errChan = @ \cup {wk[w].job}]
  /\ wk' = [wk EXCEPT ![w] = [IdleWorker EXCEPT !.st = "exited"]]

\* the worker handles what runCompactionJob returned
HandleResult(w) ==
  /\ wk[w].st = "ret"
  /\ IF wk[w].err = "nil"
       THEN /\ met' = RunCompleted(met, wk[w].outs)
            /\ cp' = [cp EXCEPT !.finishedAllJobs = FinishedAfter(@, wk[w].rerun)]
            /\ wk' = [wk EXCEPT ![w] = IdleWorker]
            /\ hist' = [hist EXCEPT !.done = @ \cup
                          {[job |-> wk[w].job, pass |-> cp.pass, noop |-> wk[w].plan = {},
                            up |-> wk[w].up, marked |-> wk[w].marked,
                            rerun |-> wk[w].rerun]}]
       ELSE /\ met' = [met EXCEPT !.failed = @ + 1]
            /\ IF wk[w].err = "i347"
                 THEN /\ wk' = [wk EXCEPT ![w].st = "repair", ![w].rstage = "download"]
                      /\ hist' = [hist EXCEPT !.i347 = @ \cup {wk[w].job}]
                      /\ UNCHANGED cp
                 ELSE IF wk[w].err = "ooo" /\ skipBlocksWithOutOfOrderChunks
                   THEN /\ wk' = [wk EXCEPT ![w].st = "nocompact", ![w].mk =
                                 [blk |-> wk[w].eb, kind |-> "nc", ctx |-> markForNoCompactCtx]]
                        /\ hist' = [hist EXCEPT !.wrote = TRUE, !.ooo = @ \cup {wk[w].job}]
                        /\ UNCHANGED cp
                   ELSE /\ SendErr(w)
                        /\ hist' = [hist EXCEPT !.ooo =
                                      IF wk[w].err = "ooo" THEN @ \cup {wk[w].job} ELSE @]
  /\ UNCHANGED <<bkt, stats, sy, env>> /\ FrameC

\* a variant of the repair that uploads the repaired block without verifying it
RepairStageSkippingVerify(stage) ==
  IF stage = "download" THEN "repair"
  ELSE IF stage = "repair" THEN "upload"
  ELSE "mark"

\* RepairIssue347: block.Download, block.Repair, block.VerifyBlock, block.Upload,
\* then block.MarkForDeletion
RepairStage(stage) ==
  IF stage = "download" THEN "repair"
  ELSE IF stage = "repair" THEN "verify"
  ELSE IF stage = "verify" THEN "upload"
  ELSE "mark"

\* the repair failed: Compact goes on to "errChan <- err; return"
RepairFails(w) ==
  /\ SendErr(w)
  /\ hist' = [hist EXCEPT !.repairFailed = @ \cup
                {[job |-> wk[w].job, blk |-> wk[w].eb, at |-> wk[w].rstage]}]
  /\ UNCHANGED bkt

\* RepairIssue347: one stage of it up to the start of the marker write
RepairIssue347(w) ==
  /\ wk[w].st = "repair" /\ wk[w].mk = NoMk
  /\ \/ RepairFails(w)
     \/ /\ wk[w].rstage = "download" /\ ~env.ctxDone
        /\ wk' = [wk EXCEPT ![w].rstage = RepairStage(@)]
        /\ UNCHANGED <<bkt, cp, hist>>
     \/ /\ wk[w].rstage = "repair" /\ bkt.made[wk[w].job] < MaxNewBlocks
        /\ bkt' = [bkt EXCEPT !.made[wk[w].job] = @ + 1]
        /\ wk' = [wk EXCEPT ![w].rstage = RepairStage(@),
                     ![w].outs = <<NewULID(wk[w].job, bkt.made[wk[w].job] + 1)>>]
        /\ UNCHANGED <<cp, hist>>
     \/ /\ wk[w].rstage = "verify"
        /\ bkt' = [bkt EXCEPT !.verified = @ \cup {wk[w].outs[1]}]
        /\ wk' = [wk EXCEPT ![w].rstage = RepairStage(@)]
        /\ UNCHANGED <<cp, hist>>
     \/ /\ wk[w].rstage = "upload" /\ ~env.ctxDone
        /\ bkt' = [bkt EXCEPT !.metas = (wk[w].outs[1] :> bkt.metas[wk[w].eb]) @@ @]
        /\ wk' = [wk EXCEPT ![w].rstage = RepairStage(@), ![w].up = {wk[w].outs[1]},
                            ![w].mk = [blk |-> wk[w].eb, kind |-> "del", ctx |-> "fresh"]]
        /\ hist' = [hist EXCEPT !.uploaded = TRUE, !.wrote = TRUE]
        /\ UNCHANGED cp
  /\ UNCHANGED <<stats, sy, env, met>> /\ FrameC

\* RepairIssue347: block.MarkForDeletion of the broken block returns
RepairMarked(w) ==
  /\ wk[w].st = "repair" /\ wk[w].mk # NoMk
  /\ \/ /\ MarkerCanSucceed(wk[w].mk.ctx)
        /\ bkt' = [bkt EXCEPT !.del = @ \cup {wk[w].mk.blk}]
        /\ cp' = [cp EXCEPT !.finishedAllJobs = FALSE]
        /\ wk' = [wk EXCEPT ![w] = IdleWorker]
        /\ hist' = [hist EXCEPT !.passMarks = @ \cup {wk[w].mk.blk},
                      !.repaired = @ \cup {[job |-> wk[w].job, blk |-> wk[w].mk.blk,
                                            resid |-> wk[w].outs[1], by |-> w]}]
     \/ RepairFails(w)
  /\ UNCHANGED <<stats, sy, env, met>> /\ FrameC

\* block.MarkForNoCompact of the block with out-of-order chunks returns
NoCompactMarked(w) ==
  /\ wk[w].st = "nocompact" /\ wk[w].mk # NoMk
  /\ \/ /\ MarkerCanSucceed(wk[w].mk.ctx)
        /\ bkt' = [bkt EXCEPT !.nc = @ \cup {wk[w].mk.blk}]
        /\ cp' = [cp EXCEPT !.finishedAllJobs = FALSE]
        /\ wk' = [wk EXCEPT ![w] = IdleWorker]
        /\ hist' = [hist EXCEPT !.ncMarked = @ \cup
                      {[job |-> wk[w].job, blk |-> wk[w].mk.blk, by |-> w]}]
     \/ /\ SendErr(w)
        /\ hist' = [hist EXCEPT !.ncFailed = @ \cup {wk[w].job}]
        /\ UNCHANGED bkt
  /\ UNCHANGED <<stats, sy, env, met>> /\ FrameC

\* "for g := range jobChan" ends: the channel is closed
WorkerExit(w) ==
  /\ wk[w].st = "idle" /\ cp.pc = "wait"
  /\ wk' = [wk EXCEPT ![w].st = "exited"]
  /\ UNCHANGED <<bkt, stats, sy, env, cp, met, hist>> /\ FrameC

----------------------------------------------------------------------------
(***************************************************************************)
(* The environment of one Compact call.                                    *)
(***************************************************************************)
\* the iteration context is cancelled (shutdown) where a step is about to read it
CancelCtx ==
  /\ ~env.ctxDone
  /\ \/ cp.pc \in {"sync", "gc"}
     \/ \E w \in Workers : wk[w].st \in {"download", "upload", "repair", "nocompact"}
  /\ env' = [env EXCEPT !.ctxDone = TRUE]
  /\ UNCHANGED <<bkt, stats, sy, cp, wk, met, hist>> /\ FrameC

\* the wait period of the recently uploaded blocks elapses before it is checked
WaitPeriodElapses ==
  /\ env.recent # {} /\ cp.pc = "group"
  /\ env' = [env EXCEPT !.recent = {}]
  /\ UNCHANGED <<bkt, stats, sy, cp, wk, met, hist>> /\ FrameC

NextC ==
  \/ CompactStart
  \/ SyncMetas
  \/ GarbageCollect
  \/ GarbageCollectMarked
  \/ BuildJobs
  \/ \E w \in Workers : SendJob(w)
  \/ ReceiveJobErr
  \/ MaxCompactionTime
  \/ CloseJobChan
  \/ PassDone
  \/ \E w \in Workers : CheckOwnJob(w)
  \/ \E w \in Workers : PlanJob(w)
  \/ \E w \in Workers : DownloadBlocks(w)
  \/ \E w \in Workers : CompactBlocks(w)
  \/ \E w \in Workers : UploadBlock(w)
  \/ \E w \in Workers : MarkSource(w)
  \/ \E w \in Workers : SourceMarked(w)
  \/ \E w \in Workers : MarkEmptySource(w)
  \/ \E w \in Workers : EmptySourceMarked(w)
  \/ \E w \in Workers : HandleResult(w)
  \/ \E w \in Workers : RepairIssue347(w)
  \/ \E w \in Workers : RepairMarked(w)
  \/ \E w \in Workers : NoCompactMarked(w)
  \/ \E w \in Workers : WorkerExit(w)
  \/ CancelCtx
  \/ WaitPeriodElapses

\* one Compact call followed by further calls on the same bucket
NextAgain ==
  \/ NextC
  \/ CompactAgain


----------------------------------------------------------------------------
(***************************************************************************)
(* The compactor ring and the sharding strategies (compactor.go).          *)
(* 32-bit values are pairs <<high 16 bits, low 16 bits>>.                  *)
(***************************************************************************)
Instances == 1..NumInstances

\* tenants and the sharding keys of their jobs, as byte strings:
\* "a", "b" and "a-1", "a-2", "b-1"
Tenants == {<<97>>, <<98>>}

ShardingKeys(tenant) ==
  IF tenant = <<97>> THEN {<<97, 45, 49>>, <<97, 45, 50>>} ELSE {<<98, 45, 49>>}

\* bitwise exclusive or of two naturals
RECURSIVE Xor(_, _)
Xor(a, b) ==
  IF a = 0 THEN b
  ELSE IF b = 0 THEN a
  ELSE (((a % 2) + (b % 2)) % 2) + 2 * Xor(a \div 2, b \div 2)

\* one step of FNV-1a: (h xor byte) * 16777619 mod 2^32, 16777619 = 256 * 2^16 + 403
FnvStep(h, byte) ==
  LET lo == ((h[2] \div 256) * 256) + Xor(h[2] % 256, byte)
      p  == lo * 403
  IN  <<((h[1] * 403) + (lo * 256) + (p \div 65536)) % 65536, p % 65536>>

RECURSIVE FnvFrom(_, _)
FnvFrom(h, bytes) ==
  IF bytes = <<>> THEN h ELSE FnvFrom(FnvStep(h, Head(bytes)), Tail(bytes))

\* fnv.New32a().Sum32() of the key; the offset basis is 2166136261
Hash(key) == FnvFrom(<<33052, 40389>>, key)

Less(x, y) == x[1] < y[1] \/ (x[1] = y[1] /\ x[2] < y[2])

\* the tokens each instance registers in the ring
TokensOf(i) ==
  IF i = 1 THEN {<<44800, 0>>, <<58000, 0>>}
  ELSE IF i = 2 THEN {<<45000, 0>>, <<56100, 0>>}
  ELSE {<<56300 + 10 * (i - 3), 0>>, <<59000 + 10 * (i - 3), 0>>}

\* ringLifecycler.Addr and ringLifecycler.ID of instance i
Addr(i) == 10 + i

InstanceStates == {"JOINING", "ACTIVE", "LEAVING", "LEFT"}

\* the instances registered in the ring r
InRing(r) == {i \in Instances : r.inst[i].state # "LEFT"}

\* RingOp accepts ACTIVE instances whose heartbeat is not older than the timeout
Acceptable(r, i) == r.inst[i].state = "ACTIVE" /\ r.inst[i].beat

\* the <<token, instance>> pairs of the instances of members
RingTokens(members) == UNION {{<<t, i>> : t \in TokensOf(i)} : i \in members}

\* the pairs in the order of a walk of the circle that starts after hash h
RECURSIVE Walk(_, _)
Walk(h, pairs) ==
  IF pairs = {} THEN <<>>
  ELSE LET after == {x \in pairs : Less(h, x[1])}
           cand  == IF after # {} THEN after ELSE pairs
           first == CHOOSE x \in cand : \A y \in cand : y = x \/ Less(x[1], y[1])
       IN  <<first>> \o Walk(first[1], pairs \ {first})

\* the distinct instances of a walk, in the order met, that are in keep
RECURSIVE Distinct(_, _, _)
Distinct(walk, seen, keep) ==
  IF walk = <<>> THEN <<>>
  ELSE LET i == Head(walk)[2] IN
       IF i \in seen \/ i \notin keep THEN Distinct(Tail(walk), seen, keep)
       ELSE <<i>> \o Distinct(Tail(walk), seen \cup {i}, keep)

FirstN(q, n) == SubSeq(q, 1, IF Len(q) < n THEN Len(q) ELSE n)

\* ring.Get(hash, RingOp): the first replicationFactor acceptable instances after
\* the hash among members; NotEnoughReplicas when fewer than
\* replicationFactor - maxErrors of them exist
Get(r, members, hash) ==
  LET ok == {i \in members : Acceptable(r, i)}
      found == FirstN(Distinct(Walk(hash, RingTokens(members)), {}, ok), r.rf)
  IN  IF Len(found) < (r.rf - (r.rf \div 2))
        THEN [err |-> TRUE, instances |-> <<>>]
        ELSE [err |-> FALSE, instances |-> found]

\* ring.ShuffleShard(tenant, size): the whole ring when size is 0 or not smaller
\* than the ring, else the first size instances met from the tenant's seed
ShuffleShard(r, tenant, size) ==
  IF size = 0 \/ size >= Cardinality(InRing(r)) THEN InRing(r)
  ELSE SeqToSet(FirstN(Distinct(Walk(Hash(tenant), RingTokens(InRing(r))), {}, InRing(r)),
                       size))

\* a variant that takes the first instance of the lookup whatever their number
instanceOwnsFirstInRing(r, members, instanceAddr, key) ==
  LET rs == Get(r, members, Hash(key)) IN
  IF rs.err THEN [ok |-> FALSE, err |-> TRUE]
  ELSE [ok |-> Addr(rs.instances[1]) = instanceAddr, err |-> FALSE]

\* instanceOwnsTokenInRing(r, instanceAddr, key), r being the ring restricted to members
instanceOwnsTokenInRing(r, members, instanceAddr, key) ==
  LET rs == Get(r, members, Hash(key)) IN
  IF rs.err THEN [ok |-> FALSE, err |-> TRUE]
  ELSE IF Len(rs.instances) # 1 THEN [ok |-> FALSE, err |-> TRUE]
  ELSE [ok |-> Addr(rs.instances[1]) = instanceAddr, err |-> FALSE]

\* defaultShardingStrategy.ownUser of instance i
ownUser(r, i, allowed, tenant) ==
  IF ~allowed THEN [ok |-> FALSE, err |-> FALSE]
  ELSE instanceOwnsTokenInRing(r, InRing(r), Addr(i), tenant)

\* splitAndMergeShardingStrategy.compactorOwnUser of instance i
compactorOwnUser(r, i, allowed, tenant, size) ==
  IF ~allowed THEN [ok |-> FALSE, err |-> FALSE]
  ELSE [ok |-> i \in ShuffleShard(r, tenant, size), err |-> FALSE]

\* splitAndMergeShardingStrategy.ownJob of instance i
ownJob(r, i, allowed, tenant, size, key) ==
  LET own == compactorOwnUser(r, i, allowed, tenant, size) IN
  IF own.err \/ ~own.ok THEN own
  ELSE instanceOwnsTokenInRing(r, ShuffleShard(r, tenant, size), Addr(i), key)

NoOb == [kind |-> "none"]

InitR ==
  /\ rg \in {[inst |-> [i \in Instances |-> [state |-> "LEFT", beat |-> TRUE]], rf |-> f] :
               f \in {1, 2}}
  /\ ob = NoOb

\* the lifecycler of instance i registers it in the ring
Join(i) ==
  /\ rg.inst[i].state = "LEFT"
  /\ rg' = [rg EXCEPT !.inst[i] = [state |-> "JOINING", beat |-> TRUE]]
  /\ ob' = NoOb /\ FrameR

\* instance i becomes ACTIVE
Activate(i) ==
  /\ rg.inst[i].state = "JOINING"
  /\ rg' = [rg EXCEPT !.inst[i].state = "ACTIVE"]
  /\ ob' = NoOb /\ FrameR

\* instance i starts to leave
Leave(i) ==
  /\ rg.inst[i].state = "ACTIVE"
  /\ rg' = [rg EXCEPT !.inst[i].state = "LEAVING"]
  /\ ob' = NoOb /\ FrameR

\* instance i is unregistered, or forgotten
Forget(i) ==
  /\ rg.inst[i].state = "LEAVING" \/ (rg.inst[i].state # "LEFT" /\ ~rg.inst[i].beat)
  /\ rg' = [rg EXCEPT !.inst[i] = [state |-> "LEFT", beat |-> TRUE]]
  /\ ob' = NoOb /\ FrameR

\* the heartbeat of instance i gets older than the timeout, or is renewed
Heartbeat(i) ==
  /\ rg.inst[i].state # "LEFT"
  /\ rg' = [rg EXCEPT !.inst[i].beat = ~@]
  /\ ob' = NoOb /\ FrameR

\* every instance evaluates ownJob for one job under the ring rg
ObserveOwnJob ==
  /\ ob = NoOb
  /\ \E tenant \in Tenants, size \in 0..MaxShardSize, allowed \in BOOLEAN :
       \E key \in ShardingKeys(tenant) :
         LET sub == ShuffleShard(rg, tenant, size)
             rs  == Get(rg, sub, Hash(key))
         IN  ob' = [kind |-> "ownJob", allowed |-> allowed, members |-> sub,
                    found |-> IF rs.err THEN 0 ELSE Len(rs.instances),
                    ans |-> [i \in Instances |-> ownJob(rg, i, allowed, tenant, size, key)]]
  /\ UNCHANGED rg /\ FrameR

\* every instance evaluates ownUser of the default strategy for one tenant
ObserveOwnUser ==
  /\ ob = NoOb
  /\ \E tenant \in Tenants, allowed \in BOOLEAN :
       LET rs == Get(rg, InRing(rg), Hash(tenant)) IN
       ob' = [kind |-> "ownUser", allowed |-> allowed, members |-> InRing(rg),
              found |-> IF rs.err THEN 0 ELSE Len(rs.instances),
              ans |-> [i \in Instances |-> ownUser(rg, i, allowed, tenant)]]
  /\ UNCHANGED rg /\ FrameR

NextR ==
  \/ \E i \in Instances : Join(i)
  \/ \E i \in Instances : Activate(i)
  \/ \E i \in Instances : Leave(i)
  \/ \E i \in Instances : Forget(i)
  \/ \E i \in Instances : Heartbeat(i)
  \/ ObserveOwnJob
  \/ ObserveOwnUser

\* the bucket compactor at rest
IdleC ==
  /\ bkt = InitBucket(FALSE)
  /\ stats = [health |-> [i \in SourceIDs |-> "ok"], noSamples |-> {}]
  /\ sy = [blocks |-> {}, dups |-> {}]
  /\ env = [ctxDone |-> FALSE, recent |-> {}]
  /\ cp = [pc |-> "idle", pass |-> 0, calls |-> 0, jobQ |-> <<>>, gcTodo |-> <<>>,
           gcMk |-> NoMk, errChan |-> {}, jobErrs |-> {}, finishedAllJobs |-> TRUE,
           maxCompactionTimeReached |-> FALSE, rerr |-> "none"]
  /\ wk = [w \in Workers |-> IdleWorker]
  /\ met = [started |-> 0, completed |-> 0, failed |-> 0, compactions |-> 0]
  /\ hist = [selected |-> {}, handed |-> {}, ran |-> {}, skipped |-> {}, denied |-> {},
             passMarks |-> {}, waitErr |-> {}, waited |-> {},
             ooo |-> {}, ncMarked |-> {}, ncFailed |-> {},
             i347 |-> {}, repaired |-> {}, repairFailed |-> {}, done |-> {},
             planned |-> FALSE, uploaded |-> FALSE, wrote |-> FALSE,
             prevOK |-> FALSE, prevRan |-> {}, extra |-> FALSE]

\* the ring at rest
IdleR ==
  /\ rg = [inst |-> [i \in Instances |-> [state |-> "LEFT", beat |-> TRUE]], rf |-> 1]
  /\ ob = NoOb


\* the instances that got (true, nil)
Owners == {i \in Instances : ob.ans[i].ok /\ ~ob.ans[i].err}

\* C4 as stated: under one ring state, exactly one instance of the tenant's
\* subring gets ownJob(job) = true, and for an allowed tenant exactly one
\* instance of the whole ring gets ownUser(tenant) = true
C4_ExactlyOneOwner ==
  /\ ob.kind = "ownJob" => Cardinality(Owners \cap ob.members) = 1
  /\ (ob.kind = "ownUser" /\ ob.allowed) => Cardinality(Owners \cap ob.members) = 1

\* C4: under one ring state at most one instance gets ownJob(job) = true and at
\* most one gets ownUser(tenant) = true, and that instance is in the tenant's
\* subring (the whole ring for ownUser); exactly one does when the tenant is
\* allowed and the ring lookup returns exactly one instance; when the lookup fails
\* or returns another number of instances, every instance that makes the lookup
\* gets an error and none gets true
C4_AtMostOneOwner ==
  ob.kind # "none" =>
    /\ Cardinality(Owners) <= 1
    /\ Owners \subseteq ob.members
    /\ (ob.allowed /\ ob.found = 1) => Cardinality(Owners) = 1
    /\ (ob.allowed /\ ob.found # 1) =>
         /\ Owners = {}
         /\ \A i \in ob.members : ob.ans[i].err
    /\ ~ob.allowed => \A i \in Instances : ~ob.ans[i].ok /\ ~ob.ans[i].err

C4_Witness ==
  /\ ob.kind = "ownJob" /\ ob.allowed
  /\ Cardinality(InRing(rg)) = 3
  /\ Cardinality(ob.members) = 2
  /\ Cardinality(Owners) = 1
  /\ \E i \in InRing(rg) \ ob.members : ~ob.ans[i].ok /\ ~ob.ans[i].err

----------------------------------------------------------------------------
(***************************************************************************)
(* MultitenantCompactor.running, compactUsers and compactUserWithRetries.  *)
(***************************************************************************)
\* backoff.Ongoing: the context is not done and retries are left
Ongoing(ctxDone, numRetries) ==
  ~ctxDone /\ (CompactionRetries = 0 \/ numRetries < CompactionRetries)

\* the orders rand.Shuffle may give the discovered users
RECURSIVE Shuffles(_)
Shuffles(set) ==
  IF set = {} THEN {<<>>}
  ELSE UNION {{<<u>> \o q : q \in Shuffles(set \ {u})} : u \in set}

NoRun ==
  [ph |-> "none", users |-> <<>>, cur |-> <<>>, succeeded |-> FALSE,
   compactionErrorCount |-> 0, lastErr |-> FALSE, numRetries |-> 0,
   discErr |-> FALSE, interrupted |-> FALSE, cut |-> FALSE, result |-> "none"]

IdleU ==
  mc = [pc |-> "initial", ctxDone |-> FALSE, runs |-> 0, run |-> NoRun,
        compactionRunsStarted |-> 0, compactionRunsCompleted |-> 0,
        compactionRunsFailed |-> 0, inflight |-> [u \in Tenants |-> 0]]

\* compactUsers is entered: compactionRunsStarted.Inc()
StartRun(m) ==
  [m EXCEPT !.pc = "run", !.runs = @ + 1, !.compactionRunsStarted = @ + 1,
            !.run = [NoRun EXCEPT !.ph = "discover"]]

\* the deferred function of compactUsers, and the return to running
EndRun(m, r) ==
  IF r.succeeded /\ r.compactionErrorCount = 0
    THEN [m EXCEPT !.pc = "select", !.compactionRunsCompleted = @ + 1,
                   !.run = [r EXCEPT !.ph = "none", !.result = "completed"]]
    ELSE [m EXCEPT !.pc = "select", !.compactionRunsFailed = @ + 1,
                   !.run = [r EXCEPT !.ph = "none", !.result = "failed"]]

\* running: "c.compactUsers(ctx)" before the ticker is started
InitialRun ==
  /\ mc.pc = "initial"
  /\ mc' = StartRun(mc)
  /\ FrameU

\* a variant in which a tick starts a run while one is in progress
TickerFiresAnyTime(pc) == pc \in {"select", "run"}

\* "case <-ticker.C" is taken by the select of running
TickerFires(pc) == pc = "select"

\* running: "case <-ticker.C: c.compactUsers(ctx)"
TickRun ==
  /\ TickerFires(mc.pc) /\ mc.runs < MaxRuns
  /\ mc' = StartRun(mc)
  /\ FrameU

\* running: "case <-ctx.Done(): return nil"
RunningReturns ==
  /\ mc.pc = "select" /\ mc.ctxDone
  /\ mc' = [mc EXCEPT !.pc = "stopped"]
  /\ FrameU

\* running: "case err := <-c.ringSubservicesWatcher.Chan()": a subservice failed
SubserviceFailed ==
  /\ mc.pc = "select"
  /\ mc' = [mc EXCEPT !.pc = "stopped"]
  /\ FrameU

\* the service context is cancelled (shutdown)
CancelService ==
  /\ ~mc.ctxDone /\ mc.pc \in {"initial", "select", "run"}
  /\ mc' = [mc EXCEPT !.ctxDone = TRUE]
  /\ FrameU

\* discoverUsersWithRetries: one turn of its loop, or its return
DiscoverUsers ==
  /\ mc.pc = "run" /\ mc.run.ph = "discover"
  /\ IF ~Ongoing(mc.ctxDone, mc.run.numRetries)
       THEN IF mc.run.lastErr
              THEN mc' = EndRun(mc, [mc.run EXCEPT !.discErr = TRUE])
              ELSE mc' = [mc EXCEPT !.run.ph = "loop", !.run.users = <<>>,
                                    !.run.cut = TRUE]
       ELSE \/ \E q \in Shuffles(Tenants) :
                 mc' = [mc EXCEPT !.run.ph = "loop", !.run.users = q]
            \/ mc' = [mc EXCEPT !.run.lastErr = TRUE, !.run.numRetries = @ + 1]
  /\ FrameU

\* compactUsers: the head of the loop over users, up to compactUserWithRetries
NextUser ==
  /\ mc.pc = "run" /\ mc.run.ph = "loop"
  /\ IF mc.run.users = <<>>
       THEN mc' = EndRun(mc, [mc.run EXCEPT !.succeeded = TRUE])
       ELSE IF mc.ctxDone
         THEN mc' = EndRun(mc, [mc.run EXCEPT !.interrupted = TRUE])
         ELSE \* not owned, marked for deletion, or a check failed: continue
              \/ mc' = [mc EXCEPT !.run.users = Tail(@)]
              \/ mc' = [mc EXCEPT !.run.ph = "retry", !.run.cur = Head(mc.run.users),
                                  !.run.lastErr = FALSE, !.run.numRetries = 0]
  /\ FrameU

\* compactUserWithRetries: "for retries.Ongoing()" and the call of compactUser
CompactUserWithRetries ==
  /\ mc.pc = "run" /\ mc.run.ph = "retry"
  /\ IF Ongoing(mc.ctxDone, mc.run.numRetries)
       THEN mc' = [mc EXCEPT !.run.ph = "compacting", !.inflight[mc.run.cur] = @ + 1]
       ELSE mc' = [mc EXCEPT !.run.ph = "loop", !.run.users = Tail(@),
                     !.run.compactionErrorCount = IF mc.run.lastErr THEN @ + 1 ELSE @,
                     !.run.cut = @ \/ ~mc.run.lastErr]
  /\ FrameU

\* compactUser returns: nil ends the retries, an error goes to retries.Wait()
CompactUserReturns ==
  /\ mc.pc = "run" /\ mc.run.ph = "compacting"
  /\ \/ mc' = [mc EXCEPT !.inflight[mc.run.cur] = @ - 1,
                         !.run.ph = "loop", !.run.users = Tail(@)]
     \/ mc' = [mc EXCEPT !.inflight[mc.run.cur] = @ - 1,
                         !.run.ph = "retry", !.run.lastErr = TRUE,
                         !.run.numRetries = @ + 1]
  /\ FrameU

NextU ==
  \/ InitialRun
  \/ TickRun
  \/ RunningReturns
  \/ SubserviceFailed
  \/ CancelService
  \/ DiscoverUsers
  \/ NextUser
  \/ CompactUserWithRetries
  \/ CompactUserReturns

----------------------------------------------------------------------------
(***************************************************************************)
(* The goroutines of a BucketCompactor: NewBucketCompactor, the workers    *)
(* Compact starts in a pass, and the concurrency.ForEachJob calls by which *)
(* runCompactionJob downloads the planned blocks and uploads the outputs.  *)
(* What the jobs do to the bucket is in the steps of Compact above; here a *)
(* job is its plan size, its output count and the transfers in progress.   *)
(***************************************************************************)
PoolIDs == 1..(MaxConcurrency + 1)

NoGoroutine ==
  [st |-> "none", stage |-> "none", n |-> 0, next |-> 0, run |-> {}, failed |-> FALSE,
   plan |-> 0, downloaded |-> 0]

\* states of a worker in which it executes runCompactionJob
PoolInJob == {"plan", "foreach", "compact"}

IdleP ==
  pl = [pc |-> "new", concurrency |-> 1, blockSyncConcurrency |-> 1, queue |-> 0,
        g |-> [i \in PoolIDs |-> NoGoroutine]]

InitP ==
  pl \in {[pc |-> "new", concurrency |-> c, blockSyncConcurrency |-> b, queue |-> 0,
           g |-> [i \in PoolIDs |-> NoGoroutine]] :
            c \in (-1)..MaxConcurrency, b \in 1..MaxBlockSync}

\* NewBucketCompactor: "if concurrency <= 0 {return nil, errors.Errorf(...)}"
NewBucketCompactor ==
  /\ pl.pc = "new"
  /\ pl' = [pl EXCEPT !.pc = IF pl.concurrency <= 0 THEN "invalid" ELSE "ready"]
  /\ FrameP

\* a variant that starts one worker more than the configured concurrency
PoolWorkersPlusOne(concurrency) == 1..(concurrency + 1)

\* "for i := 0; i < c.concurrency; i++ {wg.Add(1); go func() {...}()}"
PoolWorkers(concurrency) == 1..concurrency

\* Compact: the workers of a pass are started and the jobs of the pass are built
PoolStart ==
  /\ pl.pc = "ready"
  /\ \E jobs \in 0..PoolJobs :
       pl' = [pl EXCEPT !.pc = "dispatch", !.queue = jobs,
                !.g = [i \in PoolIDs |->
                         IF i \in PoolWorkers(pl.concurrency)
                           THEN [NoGoroutine EXCEPT !.st = "idle"]
                           ELSE NoGoroutine]]
  /\ FrameP

\* jobLoop: "case jobChan <- g" meets "for g := range jobChan" of worker i
PoolSend(i) ==
  /\ pl.pc = "dispatch" /\ pl.queue > 0 /\ pl.g[i].st = "idle"
  /\ \A k \in PoolIDs : k < i => pl.g[k].st # "idle"
  /\ pl' = [pl EXCEPT !.queue = @ - 1, !.g[i].st = "plan"]
  /\ FrameP

\* jobLoop ends (every job sent, a job error received, or the maximum compaction
\* time reached): close(jobChan)
PoolClose ==
  /\ pl.pc = "dispatch"
  /\ pl.queue = 0 \/ \E i \in PoolIDs : pl.g[i].st = "exited"
  /\ pl' = [pl EXCEPT !.pc = "wait"]
  /\ FrameP

\* the ForEachJob call of a stage over n items begins
ForEachJobBegin(r, stage, n) ==
  [r EXCEPT !.st = "foreach", !.stage = stage, !.n = n, !.next = 0, !.run = {},
            !.failed = FALSE]

\* runCompactionJob: the planner returns n blocks; none is a no-op
PoolPlan(i) ==
  /\ pl.g[i].st = "plan"
  /\ \E n \in 0..NumBlocks :
       pl' = [pl EXCEPT !.g[i] =
                IF n = 0 THEN [NoGoroutine EXCEPT !.st = "idle"]
                ELSE [ForEachJobBegin(@, "download", n) EXCEPT !.plan = n]]
  /\ FrameP

\* concurrency.ForEachJob(ctx, jobs, concurrency, f) runs f in min(concurrency, jobs)
\* goroutines
ForEachJobGoroutines(concurrency, jobs) == IF concurrency < jobs THEN concurrency ELSE jobs

\* a goroutine of ForEachJob takes the next index and calls the function on it
ForEachJobTake(i) ==
  /\ pl.g[i].st = "foreach" /\ ~pl.g[i].failed
  /\ pl.g[i].next < pl.g[i].n
  /\ Cardinality(pl.g[i].run) < ForEachJobGoroutines(pl.blockSyncConcurrency, pl.g[i].n)
  /\ pl' = [pl EXCEPT !.g[i].run = @ \cup {pl.g[i].next}, !.g[i].next = @ + 1]
  /\ FrameP

\* the download (and health check) or the upload of item idx returns
ForEachJobItemDone(i) ==
  /\ pl.g[i].st = "foreach"
  /\ \E idx \in pl.g[i].run, ok \in BOOLEAN :
       pl' = [pl EXCEPT !.g[i].run = @ \ {idx},
                !.g[i].failed = @ \/ ~ok,
                !.g[i].downloaded =
                   IF ok /\ pl.g[i].stage = "download" THEN @ + 1 ELSE @]
  /\ FrameP

\* ForEachJob returns: every goroutine of it has returned
ForEachJobReturns(i) ==
  /\ pl.g[i].st = "foreach" /\ pl.g[i].run = {}
  /\ pl.g[i].failed \/ pl.g[i].next >= pl.g[i].n
  /\ pl' = [pl EXCEPT !.g[i] =
              IF pl.g[i].failed
                THEN \* the job failed: "errChan <- err; return"
                     [NoGoroutine EXCEPT !.st = "exited"]
                ELSE IF pl.g[i].stage = "download"
                  THEN [@ EXCEPT !.st = "compact"]
                  ELSE \* the sources are marked and the worker takes the next job
                       [NoGoroutine EXCEPT !.st = "idle"]]
  /\ FrameP

\* runCompactionJob: the compaction returns its output blocks; the non-empty ones
\* are uploaded
PoolCompact(i) ==
  /\ pl.g[i].st = "compact"
  /\ \E outs \in 0..MaxNewBlocks :
       pl' = [pl EXCEPT !.g[i] =
                IF outs = 0 THEN [NoGoroutine EXCEPT !.st = "idle"]
                ELSE ForEachJobBegin(@, "upload", outs)]
  /\ FrameP

\* "for g := range jobChan" ends: the channel is closed
PoolExit(i) ==
  /\ pl.pc = "wait" /\ pl.g[i].st = "idle"
  /\ pl' = [pl EXCEPT !.g[i].st = "exited"]
  /\ FrameP

\* wg.Wait returned: Compact returns or starts the workers of another pass
PoolPassDone ==
  /\ pl.pc = "wait"
  /\ \A i \in PoolIDs : pl.g[i].st \in {"none", "exited"}
  /\ pl' = [pl EXCEPT !.pc = "done"]
  /\ FrameP

NextP ==
  \/ NewBucketCompactor
  \/ PoolStart
  \/ \E i \in PoolIDs : PoolSend(i)
  \/ PoolClose
  \/ \E i \in PoolIDs : PoolPlan(i)
  \/ \E i \in PoolIDs : ForEachJobTake(i)
  \/ \E i \in PoolIDs : ForEachJobItemDone(i)
  \/ \E i \in PoolIDs : ForEachJobReturns(i)
  \/ \E i \in PoolIDs : PoolCompact(i)
  \/ \E i \in PoolIDs : PoolExit(i)
  \/ PoolPassDone

----------------------------------------------------------------------------
(***************************************************************************)
(* Distributor.PushWithMiddlewares: one write request goes through the     *)
(* stages wrapPushWithMiddlewares wraps around Distributor.push.           *)
(* A label set is what the stages read of it: the metric name, the HA      *)
(* cluster and replica labels and one more label, whose value may be empty.*)
(***************************************************************************)
LabelSets ==
  {[name |-> n, cluster |-> c, replica |-> r, job |-> j] :
     n \in BOOLEAN, c \in BOOLEAN, r \in {"none", "ok", "long"},
     j \in {"none", "empty", "v"}}

\* len(ts.Labels)
NumLabels(l) ==
  (IF l.name THEN 1 ELSE 0) + (IF l.cluster THEN 1 ELSE 0)
    + (IF l.replica # "none" THEN 1 ELSE 0) + (IF l.job # "none" THEN 1 ELSE 0)

\* the series a request may carry: a float sample and a histogram, or an exemplar
SeriesVariants ==
  {[labels |-> l, samples |-> d[1], histograms |-> d[2], exemplars |-> d[3]] :
     l \in {x \in LabelSets : ~x.cluster => x.replica # "long"},
     d \in {<<1, 1, 0>>, <<0, 0, 1>>}}

\* mimirpb.WriteRequest with n series and m metadata entries, each entry with its
\* index on arrival
WriteRequests(n, m) ==
  {[Timeseries |-> [i \in 1..n |->
                     [id |-> i, labels |-> f[i].labels, samples |-> f[i].samples,
                      histograms |-> f[i].histograms, exemplars |-> f[i].exemplars]],
    Metadata |-> [i \in 1..m |-> i]] : f \in [1..n -> SeriesVariants]}

RECURSIVE SumSeq(_)
SumSeq(q) == IF q = <<>> THEN 0 ELSE Head(q) + SumSeq(Tail(q))

\* "numSamples += len(ts.Samples) + len(ts.Histograms)" over the series
NumSamples(series) ==
  SumSeq([i \in 1..Len(series) |-> series[i].samples + series[i].histograms])

NumExemplars(series) == SumSeq([i \in 1..Len(series) |-> series[i].exemplars])

IDs(series) == {series[i].id : i \in 1..Len(series)}

\* util.RemoveSliceIndexes: the entries at the indexes are removed, the order is kept
RECURSIVE RemoveSliceIndexes(_, _, _)
RemoveSliceIndexes(q, indexes, at) ==
  IF q = <<>> THEN <<>>
  ELSE (IF at \in indexes THEN <<>> ELSE <<Head(q)>>)
         \o RemoveSliceIndexes(Tail(q), indexes, at + 1)

NoResp == [kind |-> "none", code |-> 0, what |-> "none", id |-> 0]

\* (&mimirpb.WriteResponse{}, nil)
OkResp == [kind |-> "ok", code |-> 200, what |-> "none", id |-> 0]

\* an error with the HTTP status code it carries (0 for a plain error)
ErrResp(code, what, id) == [kind |-> "err", code |-> code, what |-> what, id |-> id]

NoMetrics ==
  [incomingSamples |-> 0, incomingExemplars |-> 0, incomingMetadata |-> 0,
   dedupedSamples |-> 0, discardedSamplesTooManyHaClusters |-> 0, nonHASamples |-> 0,
   discardedSamplesRateLimited |-> 0, receivedSamples |-> 0, receivedExemplars |-> 0,
   receivedMetadata |-> 0]

NoPush(req, pc) ==
  [pc |-> pc, in |-> req, req |-> req, ran |-> <<>>, stopped |-> "none",
   resp |-> NoResp, inner |-> NoResp, firstPartialErr |-> NoResp,
   checked |-> "none", removeReplica |-> FALSE,
   relabelRemoved |-> {}, emptyRemoved |-> {},
   invalid |-> [series |-> {}, metadata |-> {}],
   forwarded |-> [series |-> {}, metadata |-> {}],
   m |-> NoMetrics]

IdleD == ds = NoPush([Timeseries |-> <<>>, Metadata |-> <<>>], "idle")

InitD ==
  \E n \in 0..MaxSeries, m \in 0..MaxMetadata :
    ds \in {NoPush(r, "limits") : r \in WriteRequests(n, m)}

\* a variant in which the validation runs before the relabelling
wrapPushValidateFirst ==
  <<"limits", "metrics", "ha", "validate", "relabel", "wrappers", "dispatch">>

\* wrapPushWithMiddlewares: the middlewares in the order they are applied to a
\* request, d.push last
wrapPushWithMiddlewares ==
  <<"limits", "metrics", "ha", "relabel", "validate", "wrappers", "dispatch">>

\* the stage a middleware calls as next
Next_(stage) ==
  LET i == CHOOSE k \in 1..Len(wrapPushWithMiddlewares) :
             wrapPushWithMiddlewares[k] = stage
  IN  wrapPushWithMiddlewares[i + 1]

\* stage is entered
Enter(d, stage) == [d EXCEPT !.ran = Append(@, stage)]

\* "return next(ctx, pushReq)"
CallNext(d, stage) == [d EXCEPT !.pc = Next_(stage)]

\* the stage returns r without calling next; the stages outside validation pass
\* the result on as it is
ReturnEarly(d, stage, r) == [d EXCEPT !.pc = "done", !.stopped = stage, !.resp = r]

LimitsVerdicts ==
  {"ok", "errMaxInflightRequestsReached", "errMaxIngestionRateReached",
   "requestRateLimited", "errMaxInflightRequestsBytesReached"}

\* limitsMiddleware: the instance limits and the request rate limiter
limitsMiddleware ==
  /\ ds.pc = "limits"
  /\ \E v \in LimitsVerdicts :
       LET d == Enter(ds, "limits") IN
       ds' = IF v = "ok" THEN CallNext(d, "limits")
             ELSE ReturnEarly(d, "limits",
                    ErrResp(IF v = "requestRateLimited" THEN 429 ELSE 0, v, 0))
  /\ FrameD

\* metricsMiddleware: the incoming counters, before any drop
metricsMiddleware ==
  /\ ds.pc = "metrics"
  /\ ds' = [CallNext(Enter(ds, "metrics"), "metrics") EXCEPT
              !.m.incomingSamples = @ + NumSamples(ds.req.Timeseries),
              !.m.incomingExemplars = @ + NumExemplars(ds.req.Timeseries),
              !.m.incomingMetadata = @ + Len(ds.req.Metadata)]
  /\ FrameD

\* checkSample: verdict is what HATracker.checkReplica returns when it is called
checkSample(cluster, replica, verdict) ==
  IF ~cluster \/ replica = "none" THEN [removeReplicaLabel |-> FALSE, err |-> "nil"]
  ELSE IF replica = "long" THEN [removeReplicaLabel |-> FALSE, err |-> "nil"]
  ELSE IF verdict # "nil" THEN [removeReplicaLabel |-> FALSE, err |-> verdict]
  ELSE [removeReplicaLabel |-> TRUE, err |-> "nil"]

\* whether checkSample calls HATracker.checkReplica
AsksTracker(cluster, replica) == cluster /\ replica = "ok"

CheckReplicaVerdicts == {"nil", "replicasNotMatch", "tooManyClusters", "kvError"}

\* a variant that leaves the replica label on the series after the first
RemoveLabelOfFirst(series, label) ==
  [i \in 1..Len(series) |->
     IF label = "__replica__" /\ i = 1
       THEN [series[i] EXCEPT !.labels.replica = "none"] ELSE series[i]]

\* "for ix := range req.Timeseries {req.Timeseries[ix].RemoveLabel(label)}"
RemoveLabel(series, label) ==
  [i \in 1..Len(series) |->
     IF label = "__replica__" THEN [series[i] EXCEPT !.labels.replica = "none"]
     ELSE IF label = "__name__" THEN [series[i] EXCEPT !.labels.name = FALSE]
     ELSE IF label = "cluster" THEN [series[i] EXCEPT !.labels.cluster = FALSE]
     ELSE [series[i] EXCEPT !.labels.job = "none"]]

\* prePushHaDedupeMiddleware
prePushHaDedupeMiddleware ==
  /\ ds.pc = "ha"
  /\ LET d == Enter(ds, "ha")
         series == ds.req.Timeseries
         numSamples == NumSamples(series)
     IN
     \E acceptHASamples \in BOOLEAN, verdict \in CheckReplicaVerdicts :
       IF Len(series) = 0 \/ ~acceptHASamples
         THEN /\ verdict = "nil"
              /\ ds' = CallNext(d, "ha")
         ELSE LET cluster == series[1].labels.cluster
                  replica == series[1].labels.replica
                  r == checkSample(cluster, replica, verdict)
                  asked == IF AsksTracker(cluster, replica) THEN verdict ELSE "notAsked"
              IN
              /\ ~AsksTracker(cluster, replica) => verdict = "nil"
              /\ ds' =
                   IF r.err = "replicasNotMatch"
                     THEN [ReturnEarly(d, "ha", ErrResp(202, r.err, 0)) EXCEPT
                             !.checked = asked, !.m.dedupedSamples = @ + numSamples]
                   ELSE IF r.err = "tooManyClusters"
                     THEN [ReturnEarly(d, "ha", ErrResp(400, r.err, 0)) EXCEPT
                             !.checked = asked,
                             !.m.discardedSamplesTooManyHaClusters = @ + numSamples]
                   ELSE IF r.err # "nil"
                     THEN [ReturnEarly(d, "ha", ErrResp(0, r.err, 0)) EXCEPT
                             !.checked = asked]
                   ELSE IF r.removeReplicaLabel
                     THEN [CallNext(d, "ha") EXCEPT
                             !.checked = asked, !.removeReplica = TRUE,
                             !.req.Timeseries = RemoveLabel(series, "__replica__")]
                   ELSE [CallNext(d, "ha") EXCEPT
                           !.checked = asked, !.m.nonHASamples = @ + numSamples]
  /\ FrameD

\* the metric relabel configurations a tenant may have: none, or a rule that
\* drops the series that carry the label job
RelabelConfigs == {"none", "dropJob"}

\* relabel.ProcessBuilder: whether the series is kept
ProcessBuilder(labels, mrc) == ~(mrc = "dropJob" /\ labels.job = "v")

\* the DropLabels a tenant may have
DropLabelChoices == {<<>>, <<"__name__">>}

RECURSIVE RemoveLabels(_, _)
RemoveLabels(series, names) ==
  IF names = <<>> THEN series
  ELSE RemoveLabels(RemoveLabel(series, Head(names)), Tail(names))

\* RemoveEmptyLabelValues
RemoveEmptyLabelValues(series) ==
  [i \in 1..Len(series) |->
     IF series[i].labels.job = "empty" THEN [series[i] EXCEPT !.labels.job = "none"]
     ELSE series[i]]

\* prePushRelabelMiddleware
prePushRelabelMiddleware ==
  /\ ds.pc = "relabel"
  /\ \E mrc \in RelabelConfigs, dropLabels \in DropLabelChoices :
       LET d == Enter(ds, "relabel")
           series == ds.req.Timeseries
           dropped == {i \in 1..Len(series) : ~ProcessBuilder(series[i].labels, mrc)}
           cleaned == RemoveEmptyLabelValues(RemoveLabels(series, dropLabels))
           after == [i \in 1..Len(series) |-> IF i \in dropped THEN series[i] ELSE cleaned[i]]
           empty == {i \in 1..Len(series) : i \notin dropped /\ NumLabels(after[i].labels) = 0}
           removeTsIndexes == dropped \cup empty
       IN
       ds' = [CallNext(d, "relabel") EXCEPT
                !.req.Timeseries = RemoveSliceIndexes(after, removeTsIndexes, 1),
                !.relabelRemoved = {series[i].id : i \in dropped},
                !.emptyRemoved = @ \cup {series[i].id : i \in empty}]
  /\ FrameD

\* validation.ValidateLabels: the metric name is looked for first
ValidateLabels(labels, v) ==
  IF ~labels.name THEN "missingMetricName"
  ELSE IF labels.replica = "long" THEN "labelValueTooLong"
  ELSE IF v = "invalidLabel" THEN v
  ELSE "nil"

\* validateSeries: the labels, then the samples and the histograms; v is what the
\* limits and the clock make of a series with a metric name
validateSeries(ts, v) ==
  IF ValidateLabels(ts.labels, v) # "nil" THEN ValidateLabels(ts.labels, v)
  ELSE IF v = "sampleOutOfBounds" /\ ts.samples + ts.histograms > 0 THEN v
  ELSE "nil"

SeriesVerdicts == {"nil", "invalidLabel", "sampleOutOfBounds"}

\* the first index of q that is in bad, 0 when there is none
FirstIn(bad) == IF bad = {} THEN 0 ELSE CHOOSE i \in bad : \A k \in bad : i <= k

\* a variant that removes the invalid series and reports no error
NoPartialErr(series, badSeries, errOf, metadata, badMetadata) == NoResp

\* firstPartialErr: the error of the first invalid series, else of the first invalid
\* metadata entry
FirstPartialErr(series, badSeries, errOf, metadata, badMetadata) ==
  IF badSeries # {}
    THEN ErrResp(400, errOf[FirstIn(badSeries)], series[FirstIn(badSeries)].id)
  ELSE IF badMetadata # {}
    THEN ErrResp(400, "invalidMetadata", metadata[FirstIn(badMetadata)])
  ELSE NoResp

\* prePushValidationMiddleware, up to the call of next
prePushValidationMiddleware ==
  /\ ds.pc = "validate"
  /\ LET d == Enter(ds, "validate")
         series == ds.req.Timeseries
         metadata == ds.req.Metadata
         empty == {i \in 1..Len(series) : NumLabels(series[i].labels) = 0}
     IN
     \E v \in [1..Len(series) -> SeriesVerdicts], badMetadata \in SUBSET (1..Len(metadata)),
        allowN \in BOOLEAN :
       LET errOf == [i \in 1..Len(series) |-> validateSeries(series[i], v[i])]
           badSeries == {i \in 1..Len(series) : i \notin empty /\ errOf[i] # "nil"}
           removeIndexes == empty \cup badSeries
           kept == RemoveSliceIndexes(series, removeIndexes, 1)
           keptMetadata == RemoveSliceIndexes(metadata, badMetadata, 1)
           validatedSamples == NumSamples(kept)
           validatedExemplars == NumExemplars(kept)
           validatedMetadata == Len(keptMetadata)
           firstPartialErr == FirstPartialErr(series, badSeries, errOf, metadata, badMetadata)
           checked == [d EXCEPT !.req = [Timeseries |-> kept, Metadata |-> keptMetadata],
                                !.firstPartialErr = firstPartialErr,
                                !.emptyRemoved = @ \cup {series[i].id : i \in empty},
                                !.invalid = [series |-> {series[i].id : i \in badSeries},
                                             metadata |-> {metadata[i] : i \in badMetadata}]]
       IN
       \* a verdict is chosen for the series that are validated only
       /\ \A i \in 1..Len(series) : (i \in empty \/ errOf[i] # v[i]) => v[i] = "nil"
       /\ IF validatedSamples = 0 /\ validatedMetadata = 0
            THEN /\ allowN
                 /\ ds' = ReturnEarly(checked, "validate",
                            IF firstPartialErr = NoResp THEN OkResp ELSE firstPartialErr)
            ELSE IF ~allowN
              THEN ds' = [ReturnEarly(checked, "validate",
                            ErrResp(429, "ingestionRateLimited", 0)) EXCEPT
                            !.m.discardedSamplesRateLimited = @ + validatedSamples]
              ELSE ds' = [CallNext(checked, "validate") EXCEPT
                            !.forwarded = [series |-> IDs(kept),
                                           metadata |-> {keptMetadata[i] :
                                                          i \in 1..Len(keptMetadata)}]]
  /\ FrameD

\* d.cfg.PushWrappers: no wrapper is configured, or one that may reject the request
PushWrappers ==
  /\ ds.pc = "wrappers"
  /\ LET d == Enter(ds, "wrappers") IN
     \/ ds' = CallNext(d, "wrappers")
     \/ ds' = [d EXCEPT !.pc = "unwind", !.stopped = "wrappers",
                        !.inner = ErrResp(0, "wrapperError", 0)]
  /\ FrameD

\* a variant that counts the request as it arrived
updateReceivedMetricsOfArrival(m, req) ==
  [m EXCEPT !.receivedSamples = @ + NumSamples(ds.in.Timeseries),
            !.receivedExemplars = @ + NumExemplars(ds.in.Timeseries),
            !.receivedMetadata = @ + Len(ds.in.Metadata)]

\* updateReceivedMetrics
updateReceivedMetrics(m, req) ==
  [m EXCEPT !.receivedSamples = @ + NumSamples(req.Timeseries),
            !.receivedExemplars = @ + NumExemplars(req.Timeseries),
            !.receivedMetadata = @ + Len(req.Metadata)]

\* Distributor.push: the received counters, then ring.DoBatch over the ingesters
push ==
  /\ ds.pc = "dispatch"
  /\ LET d == [Enter(ds, "dispatch") EXCEPT
                 !.pc = "unwind", !.m = updateReceivedMetrics(@, ds.req)]
     IN
     IF Len(ds.req.Timeseries) = 0 /\ Len(ds.req.Metadata) = 0
       THEN ds' = [d EXCEPT !.inner = OkResp]
       ELSE \/ ds' = [d EXCEPT !.inner = OkResp]
            \/ ds' = [d EXCEPT !.inner = ErrResp(500, "doBatchError", 0)]
  /\ FrameD

\* prePushValidationMiddleware after next returned: "if err != nil {return nil, err};
\* return res, firstPartialErr"
ValidationReturns ==
  /\ ds.pc = "unwind"
  /\ ds' = [ds EXCEPT !.pc = "done",
              !.resp = IF ds.inner.kind = "err" THEN ds.inner
                       ELSE IF ds.firstPartialErr = NoResp THEN ds.inner
                       ELSE ds.firstPartialErr]
  /\ FrameD

NextD ==
  \/ limitsMiddleware
  \/ metricsMiddleware
  \/ prePushHaDedupeMiddleware
  \/ prePushRelabelMiddleware
  \/ prePushValidationMiddleware
  \/ PushWrappers
  \/ push
  \/ ValidationReturns

----------------------------------------------------------------------------
(***************************************************************************)
(* One series with float samples and histograms, each a sequence of        *)
(* timestamps in increasing order: what Distributor.validateSeries leaves  *)
(* of it, and what a concreteSeriesIterator returns for it.                *)
(***************************************************************************)
\* the sequences of strictly increasing timestamps
Timestamps == {SortedSeq(S) : S \in SUBSET (1..MaxT)}

NoSeries == [samples |-> <<>>, histograms |-> <<>>, floatHisto |-> FALSE]

\* NewConcreteSeriesIterator: curFloat: -1, curHisto: -1, atHisto: false
NoSe(series, pc) ==
  [pc |-> pc, series |-> series, validated |-> "none", fwd |-> NoSeries,
   curFloat |-> -1, curHisto |-> -1, atHisto |-> FALSE, last |-> "none", out |-> <<>>,
   seeks |-> 0, seekT |-> -1, from |-> 0, fresh |-> FALSE]

IdleS == se = NoSe(NoSeries, "idle")

InitS ==
  se \in {NoSe([samples |-> f, histograms |-> h, floatHisto |-> k], "ready") :
            f \in Timestamps, h \in Timestamps, k \in BOOLEAN}

\* validation.ValidateSample and ValidateSampleHistogram: the timestamp is within
\* the window the limits and the clock give
ValidateSample(t, lo, hi) ==
  IF t < lo THEN "sampleTimestampTooOld"
  ELSE IF t > hi THEN "sampleTimestampTooNew"
  ELSE "nil"

\* the first error ValidateSample finds in the timestamps q, "nil" if none
RECURSIVE FirstErr(_, _, _)
FirstErr(q, lo, hi) ==
  IF q = <<>> THEN "nil"
  ELSE IF ValidateSample(Head(q), lo, hi) # "nil" THEN ValidateSample(Head(q), lo, hi)
  ELSE FirstErr(Tail(q), lo, hi)

\* the timestamps of q that are not in the sequence of timestamps taken
NotAt(q, taken) ==
  SelectSeq(q, LAMBDA t : t \notin {taken[i] : i \in 1..Len(taken)})

\* a variant that drops the histograms at the timestamp of a float of the series
validateSamplesFloatWins(ts, lo, hi) ==
  IF FirstErr(ts.samples, lo, hi) # "nil"
    THEN [err |-> FirstErr(ts.samples, lo, hi), ts |-> ts]
  ELSE IF FirstErr(ts.histograms, lo, hi) # "nil"
    THEN [err |-> FirstErr(ts.histograms, lo, hi), ts |-> ts]
  ELSE [err |-> "nil",
        ts |-> [ts EXCEPT !.histograms = NotAt(ts.histograms, ts.samples)]]

\* validateSeries on the samples of a series with valid labels: every float, then
\* every histogram; ts is returned as validateSeries leaves it
validateSamples(ts, lo, hi) ==
  IF FirstErr(ts.samples, lo, hi) # "nil"
    THEN [err |-> FirstErr(ts.samples, lo, hi), ts |-> ts]
  ELSE IF FirstErr(ts.histograms, lo, hi) # "nil"
    THEN [err |-> FirstErr(ts.histograms, lo, hi), ts |-> ts]
  ELSE [err |-> "nil", ts |-> ts]

\* the windows a series is validated under
Windows == {<<lo, hi>> \in (1..2) \X ((MaxT - 1)..MaxT) : TRUE}

\* validateSeries is called for the series
ValidateSeries ==
  /\ se.pc = "ready" /\ se.validated = "none"
  /\ \E w \in Windows :
       LET r == validateSamples(se.series, w[1], w[2]) IN
       se' = [se EXCEPT !.validated = r.err, !.fwd = r.ts]
  /\ FrameS

\* chunkenc.ValHistogram or ValFloatHistogram, by IsFloatHistogram of the histogram
HistoValue(series) == IF series.floatHisto THEN "ValFloatHistogram" ELSE "ValHistogram"

\* concreteSeriesIterator.Next; Go's indexes start at 0
IteratorNext ==
  /\ se.pc = "ready"
  /\ se.curFloat <= Len(se.series.samples) /\ se.curHisto <= Len(se.series.histograms)
  /\ LET samples == se.series.samples
         histograms == se.series.histograms
         float == [se EXCEPT !.curFloat = @ + 1, !.atHisto = FALSE, !.last = "ValFloat",
                     !.out = Append(@, [t |-> samples[se.curFloat + 2], val |-> "ValFloat"])]
         histo == [se EXCEPT !.curHisto = @ + 1, !.atHisto = TRUE,
                     !.last = HistoValue(se.series),
                     !.out = Append(@, [t |-> histograms[se.curHisto + 2],
                                        val |-> HistoValue(se.series)])]
     IN
     se' = IF se.curFloat + 1 >= Len(samples) /\ se.curHisto + 1 >= Len(histograms)
             THEN [se EXCEPT !.curFloat = @ + 1, !.curHisto = @ + 1, !.last = "ValNone"]
           ELSE IF se.curFloat + 1 >= Len(samples) THEN histo
           ELSE IF se.curHisto + 1 >= Len(histograms) THEN float
           ELSE IF samples[se.curFloat + 2] < histograms[se.curHisto + 2] THEN float
           ELSE histo
  /\ FrameS

\* a variant of the search that stops at the first timestamp after t
SearchAfter(q, offset, t) ==
  offset + Cardinality({n \in (offset + 1)..Len(q) : q[n] <= t})

\* sort.Search(len(q[offset:]), func(n) {q[offset+n].Timestamp >= t}) + offset on a
\* sorted q: the Go index of the first timestamp >= t from offset on, else len(q)
Search(q, offset, t) ==
  offset + Cardinality({n \in (offset + 1)..Len(q) : q[n] < t})

\* "offsetFloat := 0; if c.curFloat > 0 {offsetFloat = c.curFloat}"
SeekOffset(cur) == IF cur > 0 THEN cur ELSE 0

\* the arguments of Seek
SeekTimes == 0..(MaxSeekT + 1)

\* a new iterator on a series whose floats and histograms are each sorted
InitSK ==
  se \in {NoSe([samples |-> SortedSeq(F), histograms |-> SortedSeq(H), floatHisto |-> k],
               "ready") :
            F \in SUBSET (1..MaxSeekT), H \in SUBSET (1..MaxSeekT), k \in BOOLEAN}

\* concreteSeriesIterator.Seek(t); slicing from an offset beyond the length panics
IteratorSeek ==
  /\ se.pc = "ready" /\ se.seeks < MaxSeeks
  /\ \E t \in SeekTimes :
       LET samples == se.series.samples
           histograms == se.series.histograms
           offsetFloat == SeekOffset(se.curFloat)
           offsetHisto == SeekOffset(se.curHisto)
           curFloat == Search(samples, offsetFloat, t)
           curHisto == Search(histograms, offsetHisto, t)
           sought == [se EXCEPT !.curFloat = curFloat, !.curHisto = curHisto,
                        !.seeks = @ + 1, !.seekT = t, !.from = Len(se.out),
                        !.fresh = (se.last = "none")]
           float == [sought EXCEPT !.atHisto = FALSE, !.last = "ValFloat",
                       !.out = Append(@, [t |-> samples[curFloat + 1], val |-> "ValFloat"])]
           histo == [sought EXCEPT !.atHisto = TRUE, !.last = HistoValue(se.series),
                       !.out = Append(@, [t |-> histograms[curHisto + 1],
                                          val |-> HistoValue(se.series)])]
       IN
       se' = IF offsetFloat > Len(samples) \/ offsetHisto > Len(histograms)
               THEN [se EXCEPT !.pc = "panicked", !.seeks = @ + 1, !.seekT = t]
             ELSE IF curFloat >= Len(samples) /\ curHisto >= Len(histograms)
               THEN [sought EXCEPT !.last = "ValNone"]
             ELSE IF curFloat >= Len(samples) THEN histo
             ELSE IF curHisto >= Len(histograms) THEN float
             ELSE IF samples[curFloat + 1] < histograms[curHisto + 1] THEN float
             ELSE histo
  /\ FrameS

\* the timestamp At returns, -1 if it panics
At(it) ==
  IF it.atHisto THEN -1
  ELSE IF it.curFloat < 0 \/ it.curFloat >= Len(it.series.samples) THEN -1
  ELSE it.series.samples[it.curFloat + 1]

\* the timestamp AtHistogram returns, -1 if it panics
AtHistogram(it) ==
  IF ~it.atHisto THEN -1
  ELSE IF it.curHisto < 0 \/ it.curHisto >= Len(it.series.histograms) THEN -1
  ELSE IF it.series.floatHisto THEN -1
  ELSE it.series.histograms[it.curHisto + 1]

\* the timestamp AtFloatHistogram returns, -1 if it panics
AtFloatHistogram(it) ==
  IF ~it.atHisto THEN -1
  ELSE IF it.curHisto < 0 \/ it.curHisto >= Len(it.series.histograms) THEN -1
  ELSE IF ~it.series.floatHisto THEN -1
  ELSE it.series.histograms[it.curHisto + 1]

NextS ==
  \/ ValidateSeries
  \/ IteratorNext

\* an iterator on which Seek and Next are called in any order
NextSeek ==
  \/ IteratorSeek
  \/ IteratorNext

----------------------------------------------------------------------------
(***************************************************************************)
(* Distributor.push from the creation of localCtx on: ring.DoBatch sends   *)
(* to every ingester in a goroutine of its own, returns on quorum, on too  *)
(* many failures or when the caller's context is done, and calls cleanup   *)
(* when the last send has returned.                                        *)
(***************************************************************************)
Ingesters == 1..NumIngesters

NoSend == [st |-> "none", caller |-> "live"]

NoSn(pc) ==
  [pc |-> pc, ctx |-> "live", localCtx |-> "none", sends |-> [i \in Ingesters |-> NoSend],
   ret |-> "none", cleanups |-> 0]

IdleN == sn = NoSn("idle")

InitN == sn = NoSn("push")

\* a variant in which localCtx is a child of the caller's context
LocalCtxErrOfChild(s) ==
  IF s.localCtx = "deadline" THEN "DeadlineExceeded"
  ELSE IF s.localCtx = "cancelled" \/ s.ctx = "cancelled" THEN "Canceled"
  ELSE "nil"

\* localCtx.Err(): localCtx is context.WithTimeout(context.Background(), RemoteTimeout)
LocalCtxErr(s) ==
  IF s.localCtx = "deadline" THEN "DeadlineExceeded"
  ELSE IF s.localCtx = "cancelled" THEN "Canceled"
  ELSE "nil"

Finished(s) == {i \in Ingesters : s.sends[i].st \notin {"none", "inflight"}}

Succeeded(s) == {i \in Ingesters : s.sends[i].st = "ok"}

\* the caller's context is cancelled, at any time
CallerCancels ==
  /\ sn.pc # "idle" /\ sn.ctx = "live"
  /\ sn' = [sn EXCEPT !.ctx = "cancelled"]
  /\ FrameN

\* push creates localCtx and calls ring.DoBatch, which starts the sends; when the
\* ring has no replication set for a key DoBatch calls cleanup and returns the error
PushDoBatch ==
  /\ sn.pc = "push"
  /\ \/ sn' = [sn EXCEPT !.pc = "batch", !.localCtx = "live",
                 !.sends = [i \in Ingesters |-> [st |-> "inflight", caller |-> sn.ctx]]]
     \/ sn' = [sn EXCEPT !.pc = "returned", !.localCtx = "cancelled",
                 !.ret = "ringError", !.cleanups = @ + 1]
  /\ FrameN

\* the remote timeout of localCtx expires
RemoteTimeout ==
  /\ sn.localCtx = "live"
  /\ sn' = [sn EXCEPT !.localCtx = "deadline"]
  /\ FrameN

\* d.send(localCtx, ...) returns in the callback of DoBatch: the ingester's answer,
\* or the error of localCtx; context.DeadlineExceeded is turned into a 500
Send(i) ==
  /\ sn.sends[i].st = "inflight"
  /\ \E answer \in {"ok", "failed"} :
       LET st == IF LocalCtxErr(sn) = "DeadlineExceeded" THEN "timeout500"
                 ELSE IF LocalCtxErr(sn) = "Canceled" THEN "cancelled"
                 ELSE answer
       IN sn' = [sn EXCEPT !.sends[i] = [st |-> st, caller |-> sn.ctx]]
  /\ FrameN

\* ring.DoBatch returns: the caller's context is done, every key has its quorum, or
\* more sends failed than the quorum tolerates
DoBatchReturns ==
  /\ sn.pc = "batch"
  /\ LET failed == Finished(sn) \ Succeeded(sn)
         minSuccess == (NumIngesters \div 2) + 1
         maxFailures == NumIngesters - minSuccess
     IN
     \/ /\ sn.ctx = "cancelled"
        /\ sn' = [sn EXCEPT !.pc = "returned", !.ret = "Canceled"]
     \/ /\ Cardinality(Succeeded(sn)) >= minSuccess
        /\ sn' = [sn EXCEPT !.pc = "returned", !.ret = "ok"]
     \/ /\ Cardinality(failed) > maxFailures
        /\ \E i \in failed :
             sn' = [sn EXCEPT !.pc = "returned", !.ret = sn.sends[i].st]
  /\ FrameN

\* the cleanup passed to DoBatch, run when the last send has returned:
\* pushReq.CleanUp() and cancel() of localCtx
DoBatchCleanup ==
  /\ sn.pc \in {"batch", "returned"} /\ sn.cleanups = 0
  /\ Finished(sn) = Ingesters
  /\ sn' = [sn EXCEPT !.cleanups = @ + 1,
              !.localCtx = IF @ = "live" THEN "cancelled" ELSE @]
  /\ FrameN

NextN ==
  \/ CallerCancels
  \/ PushDoBatch
  \/ RemoteTimeout
  \/ \E i \in Ingesters : Send(i)
  \/ DoBatchReturns
  \/ DoBatchCleanup

----------------------------------------------------------------------------
(***************************************************************************)
(* Distributor.LabelValuesCardinality: the messages of the ingesters are   *)
(* added up by zone in a labelValuesCardinalityConcurrentMap, from which   *)
(* the response is made.                                                   *)
(***************************************************************************)
Zones == {"zone-a", "zone-b"}

\* the (label name, label value) pairs the ingesters know of
LabelPairs == {<<"job", "a">>, <<"job", "b">>}

\* LabelValuesCardinalityResponse of one ingester: the series count of each pair
\* it reports, 0 for a pair it does not report
CardinalityMessages == [LabelPairs -> 0..MaxSeriesCount]

NoCd(pc) ==
  [pc |-> pc, zoneOf |-> [i \in Ingesters |-> "zone-a"], zoneCount |-> 1,
   replicationFactor |-> 1, messages |-> [i \in Ingesters |-> [p \in LabelPairs |-> 0]],
   processed |-> {}, cardinalityMapByZone |-> [p \in {} |-> 0], resp |-> [p \in {} |-> 0]]

IdleK == cd = NoCd("idle")

\* replicationSet.ZoneCount() is the number of zones of the ingesters asked
InitK ==
  cd \in {[NoCd("collect") EXCEPT !.zoneOf = z, !.messages = m, !.replicationFactor = rf,
             !.zoneCount = Cardinality({z[i] : i \in Ingesters})] :
            z \in [Ingesters -> Zones], m \in [Ingesters -> CardinalityMessages],
            rf \in 1..MaxReplicationFactor}

RECURSIVE SumOver(_, _)
SumOver(f, S) ==
  IF S = {} THEN 0
  ELSE LET x == CHOOSE y \in S : TRUE IN f[x] + SumOver(f, S \ {x})

MaxOver(f, S) ==
  IF S = {} THEN 0 ELSE f[CHOOSE x \in S : \A y \in S : f[x] >= f[y]]

\* a variant that divides the sum by the replication factor whatever the zones
approximateBySum(zoneCount, replicationFactor, seriesCountMapByZone) ==
  SumOver(seriesCountMapByZone, DOMAIN seriesCountMapByZone) \div replicationFactor

\* approximateFromZones, for series counts (uint64)
approximateFromZones(zoneCount, replicationFactor, seriesCountMapByZone) ==
  IF zoneCount > 1
    THEN MaxOver(seriesCountMapByZone, DOMAIN seriesCountMapByZone)
    ELSE SumOver(seriesCountMapByZone, DOMAIN seriesCountMapByZone) \div replicationFactor

\* f with f[k] set to v, k added to the domain when it is new
Put(f, k, v) == [x \in (DOMAIN f) \cup {k} |-> IF x = k THEN v ELSE f[x]]

\* "cardinalityMapByZone[item.LabelName][labelValue][zone] += seriesCount" for the
\* pairs of the message, in any order
RECURSIVE AddMessage(_, _, _, _)
AddMessage(m, zone, message, pairs) ==
  IF pairs = {} THEN m
  ELSE LET p == CHOOSE x \in pairs : TRUE
           old == IF p \in DOMAIN m THEN m[p] ELSE [z \in {} |-> 0]
           cnt == IF zone \in DOMAIN old THEN old[zone] ELSE 0
       IN AddMessage(Put(m, p, Put(old, zone, cnt + message[p])), zone, message,
                     pairs \ {p})

\* processLabelValuesCardinalityMessage for the message of ingester i
processLabelValuesCardinalityMessage(i) ==
  /\ cd.pc = "collect" /\ i \notin cd.processed
  /\ cd' = [cd EXCEPT
              !.processed = @ \cup {i},
              !.cardinalityMapByZone =
                 AddMessage(@, cd.zoneOf[i], cd.messages[i],
                            {p \in LabelPairs : cd.messages[i][p] > 0})]
  /\ FrameK

\* toLabelValuesCardinalityResponse, once DoUntilQuorum has returned
toLabelValuesCardinalityResponse ==
  /\ cd.pc = "collect"
  /\ cd' = [cd EXCEPT !.pc = "done",
              !.resp = [p \in DOMAIN cd.cardinalityMapByZone |->
                          approximateFromZones(cd.zoneCount, cd.replicationFactor,
                                               cd.cardinalityMapByZone[p])]]
  /\ FrameK

NextK ==
  \/ \E i \in Ingesters : processLabelValuesCardinalityMessage(i)
  \/ toLabelValuesCardinalityResponse

----------------------------------------------------------------------------
(***************************************************************************)
(* ReaderPool with its two background goroutines under a discrete clock.   *)
(* Time is kept relative to the present: a reader has the time since its   *)
(* last use (now - usedAt, which stops counting at MaxAge), a goroutine    *)
(* the time left of its time.After.  A goroutine that can go on does so    *)
(* before the clock advances.  What the snapshot goroutine copies and      *)
(* persists is followed in SpecSnapshot.                                   *)
(***************************************************************************)
Readers == 1..NumReaders

\* "checkFreq := p.lazyReaderIdleTimeout / 10"
checkFreq(lazyReaderIdleTimeout) == lazyReaderIdleTimeout \div 10

\* ages are told apart up to here
MaxAge == IdleTimeout + checkFreq(IdleTimeout) + 1

\* st: none yet, tracked in p.lazyReaders, untracked, or closed by its consumer;
\* failed: the last attempt to unload it failed; idleClosed: it is unloaded because
\* the idle check closed it; reopened: it has been loaded again after that;
\* errNotIdle: the idle check has just found it used since it was listed
NoReader ==
  [st |-> "none", loaded |-> FALSE, age |-> 0, failed |-> FALSE,
   idleClosed |-> FALSE, reopened |-> FALSE, errNotIdle |-> FALSE]

NoRp(pc) ==
  [pc |-> pc, lazyReaderEnabled |-> FALSE, lazyReaderIdleTimeout |-> 0,
   closed |-> FALSE, sinceClose |-> 0,
   lazyReaders |-> [r \in Readers |-> NoReader],
   idle |-> [pc |-> "off", timer |-> 0, todo |-> {}],
   snap |-> [pc |-> "off", timer |-> 0]]

IdleRP == rp = NoRp("idle")

\* NewReaderPool: the goroutines are started only with lazy loading and a timeout
InitRP ==
  \E lazy \in BOOLEAN, timeout \in {0, IdleTimeout} :
    /\ lazy \/ timeout > 0
    /\ rp = [NoRp("open") EXCEPT
               !.lazyReaderEnabled = lazy, !.lazyReaderIdleTimeout = timeout,
               !.idle = IF lazy /\ timeout > 0
                          THEN [pc |-> "select", timer |-> checkFreq(timeout), todo |-> {}]
                          ELSE @,
               !.snap = IF lazy /\ timeout > 0
                          THEN [pc |-> "select", timer |-> SnapshotPeriod]
                          ELSE @]

\* the readers in p.lazyReaders
Tracked(p) == {r \in Readers : p.lazyReaders[r].st = "tracked"}

\* a variant of the select without the case of p.close
SelectReadyTimerOnly(g, closed) == g.pc = "select" /\ g.timer = 0

\* "select {case <-p.close: ... case <-time.After(...): ...}" has a case to take
SelectReady(g, closed) == g.pc = "select" /\ (closed \/ g.timer = 0)

\* a goroutine has a step to take at the present time
Due(p) ==
  \/ p.idle.pc = "unload"
  \/ SelectReady(p.idle, p.closed)
  \/ SelectReady(p.snap, p.closed)

\* one unit of time passes
Tick ==
  /\ rp.pc = "open" /\ ~Due(rp)
  /\ rp' = [rp EXCEPT
              !.lazyReaders = [r \in Readers |->
                                 IF @[r].st \in {"tracked", "untracked"} /\ @[r].age < MaxAge
                                   THEN [@[r] EXCEPT !.age = @ + 1, !.errNotIdle = FALSE]
                                   ELSE [@[r] EXCEPT !.errNotIdle = FALSE]],
              !.idle.timer = IF @ > 0 THEN @ - 1 ELSE 0,
              !.snap.timer = IF @ > 0 THEN @ - 1 ELSE 0,
              !.sinceClose = IF rp.closed THEN 1 ELSE 0]
  /\ FrameRP

\* ReaderPool.NewBinaryReader: a lazy reader, tracked if the pool has a timeout;
\* without lazy loading the reader is loaded by the factory at once
NewBinaryReader(r) ==
  /\ rp.pc = "open" /\ rp.lazyReaders[r].st = "none"
  /\ rp' = [rp EXCEPT !.lazyReaders[r] =
              [NoReader EXCEPT
                 !.st = IF rp.lazyReaderEnabled /\ rp.lazyReaderIdleTimeout > 0
                          THEN "tracked" ELSE "untracked",
                 !.loaded = ~rp.lazyReaderEnabled]]
  /\ FrameRP

\* a consumer reads through the reader: the reader is loaded if it is not, and
\* usedAt is set to now
Use(r) ==
  /\ rp.pc = "open" /\ rp.lazyReaders[r].st \in {"tracked", "untracked"}
  /\ rp.lazyReaders[r].age > 0 \/ ~rp.lazyReaders[r].loaded
  /\ rp' = [rp EXCEPT !.lazyReaders[r] =
              [@ EXCEPT !.loaded = TRUE, !.age = 0, !.failed = FALSE, !.errNotIdle = FALSE,
                        !.idleClosed = FALSE, !.reopened = @ \/ rp.lazyReaders[r].idleClosed]]
  /\ FrameRP

\* the consumer closes the reader: LazyBinaryReader.Close unloads it and calls
\* onClosed, which is ReaderPool.onLazyReaderClosed: delete(p.lazyReaders, r)
onLazyReaderClosed(r) ==
  /\ rp.pc = "open" /\ rp.lazyReaders[r].st \in {"tracked", "untracked"}
  /\ rp' = [rp EXCEPT !.lazyReaders[r] = [@ EXCEPT !.st = "closed", !.loaded = FALSE,
                                                   !.errNotIdle = FALSE]]
  /\ FrameRP

\* a variant that unloads the readers it tracks
CloseUnloadingReaders ==
  /\ rp.pc = "open" /\ ~rp.closed
  /\ rp' = [rp EXCEPT !.closed = TRUE,
              !.lazyReaders = [r \in Readers |-> [@[r] EXCEPT !.loaded = FALSE]]]
  /\ FrameRP

\* ReaderPool.Close: close(p.close)
Close ==
  /\ rp.pc = "open" /\ ~rp.closed
  /\ rp' = [rp EXCEPT !.closed = TRUE]
  /\ FrameRP

\* LazyBinaryReader.isIdleSince(now - lazyReaderIdleTimeout): usedAt is not after
\* it, and the reader is loaded
isIdleSince(reader, lazyReaderIdleTimeout) ==
  reader.loaded /\ reader.age >= lazyReaderIdleTimeout

\* a variant that finds no reader idle
getNoIdleReaders(p) == {}

\* a variant that finds at most one idle reader at a time
getOneIdleReader(p) ==
  LET idle == {r \in Tracked(p) : isIdleSince(p.lazyReaders[r], p.lazyReaderIdleTimeout)}
  IN  {r \in idle : \A q \in idle : r <= q}

\* getIdleReadersSince
getIdleReadersSince(p) ==
  {r \in Tracked(p) : isIdleSince(p.lazyReaders[r], p.lazyReaderIdleTimeout)}

\* the idle goroutine's select takes time.After(checkFreq): closeIdleReaders
\* collects the idle readers under the pool's lock
closeIdleReaders ==
  /\ SelectReady(rp.idle, rp.closed) /\ rp.idle.timer = 0
  /\ rp' = [rp EXCEPT !.idle =
              IF getIdleReadersSince(rp) = {}
                THEN [pc |-> "select", timer |-> checkFreq(rp.lazyReaderIdleTimeout),
                      todo |-> {}]
                ELSE [pc |-> "unload", timer |-> 0, todo |-> getIdleReadersSince(rp)]]
  /\ FrameRP

\* after the unload of one reader: the next one, or back to the select
AfterUnload(p, r) ==
  [p EXCEPT !.idle =
     IF p.idle.todo = {r}
       THEN [pc |-> "select", timer |-> checkFreq(p.lazyReaderIdleTimeout), todo |-> {}]
       ELSE [@ EXCEPT !.todo = @ \ {r}]]

\* a variant that warns of every error
WarnsOfEveryError(err) == err # "nil"

\* closeIdleReaders: "err != nil && !errors.Is(err, errNotIdle)", a warning is logged
Warns(err) == err \notin {"nil", "errNotIdle"}

\* closeIdleReaders calls unloadIfIdleSince for a collected reader: nothing to do
\* if it is unloaded, errNotIdle if it was used since, else its reader is closed
unloadIfIdleSince(r) ==
  /\ rp.idle.pc = "unload" /\ r \in rp.idle.todo
  /\ rp' = IF isIdleSince(rp.lazyReaders[r], rp.lazyReaderIdleTimeout)
             THEN [AfterUnload(rp, r) EXCEPT
                     !.lazyReaders[r] = [@ EXCEPT !.loaded = FALSE, !.failed = Warns("nil"),
                                                  !.idleClosed = TRUE]]
           ELSE IF rp.lazyReaders[r].loaded
             THEN [AfterUnload(rp, r) EXCEPT
                     !.lazyReaders[r] = [@ EXCEPT !.errNotIdle = TRUE,
                                                  !.failed = Warns("errNotIdle")]]
           ELSE AfterUnload(rp, r)
  /\ FrameRP

\* the Close of the underlying reader fails: the reader stays loaded and
\* closeIdleReaders logs a warning
unloadFails(r) ==
  /\ rp.idle.pc = "unload" /\ r \in rp.idle.todo
  /\ isIdleSince(rp.lazyReaders[r], rp.lazyReaderIdleTimeout)
  /\ rp' = [AfterUnload(rp, r) EXCEPT
              !.lazyReaders[r] = [@ EXCEPT !.failed = Warns("closing binary reader")]]
  /\ FrameRP

\* the idle goroutine's select takes p.close
IdleExits ==
  /\ SelectReady(rp.idle, rp.closed) /\ rp.closed
  /\ rp' = [rp EXCEPT !.idle = [pc |-> "exited", timer |-> 0, todo |-> {}]]
  /\ FrameRP

\* the snapshot goroutine's select takes its time.After: CopyLazyLoadedState under
\* the pool's lock, then Persist
SnapshotRound ==
  /\ SelectReady(rp.snap, rp.closed) /\ rp.snap.timer = 0
  /\ rp' = [rp EXCEPT !.snap = [pc |-> "select", timer |-> SnapshotPeriod]]
  /\ FrameRP

\* the snapshot goroutine's select takes p.close
SnapshotExits ==
  /\ SelectReady(rp.snap, rp.closed) /\ rp.closed
  /\ rp' = [rp EXCEPT !.snap = [pc |-> "exited", timer |-> 0]]
  /\ FrameRP

NextRP ==
  \/ Tick
  \/ \E r \in Readers : NewBinaryReader(r)
  \/ \E r \in Readers : Use(r)
  \/ \E r \in Readers : onLazyReaderClosed(r)
  \/ Close
  \/ closeIdleReaders
  \/ \E r \in Readers : unloadIfIdleSince(r)
  \/ \E r \in Readers : unloadFails(r)
  \/ IdleExits
  \/ SnapshotRound
  \/ SnapshotExits

----------------------------------------------------------------------------
(***************************************************************************)
(* HeadersLazyLoadedTracker: what the snapshot goroutine copies from the    *)
(* pool's readers and writes to the file at Path, with the process         *)
(* stopping at any point and reading the file back when it starts again.   *)
(* The block ID of reader r is r.  The marshalled state is a sequence of   *)
(* fields, one for the user ID and one for each entry of LazyLoadedBlocks, *)
(* and a file is written field by field.                                   *)
(***************************************************************************)
UsedAts == 0..MaxUsedAt

\* a reader of p.lazyReaders: reader # nil (loaded) and usedAt
SnapReaders ==
  [Readers -> [tracked : BOOLEAN, loaded : BOOLEAN, usedAt : UsedAts]]

NoSnapReaders == [r \in Readers |-> [tracked |-> FALSE, loaded |-> FALSE, usedAt |-> 0]]

UserIDField == [f |-> "UserID", k |-> 0, v |-> 0]

BlockField(k, v) == [f |-> "LazyLoadedBlocks", k |-> k, v |-> v]

\* the orders in which the entries of a map are written
Orders(S) ==
  {o \in [1..Cardinality(S) -> S] : \A i, j \in 1..Cardinality(S) : o[i] = o[j] => i = j}

\* State.Marshal: the user ID, then the entries of the map in some order
Marshal(blocks) ==
  {<<UserIDField>> \o [i \in 1..Cardinality(DOMAIN blocks) |-> BlockField(o[i], blocks[o[i]])] :
     o \in Orders(DOMAIN blocks)}

\* Unmarshal: the fields that are there; the last field of a key wins
Unmarshal(data) ==
  LET at(k) == {i \in 1..Len(data) : data[i].f = "LazyLoadedBlocks" /\ data[i].k = k}
      keys  == {data[i].k : i \in {j \in 1..Len(data) : data[j].f = "LazyLoadedBlocks"}}
  IN  [userID |-> \E i \in 1..Len(data) : data[i].f = "UserID",
       blocks |-> [k \in keys |-> data[CHOOSE i \in at(k) : \A j \in at(k) : j <= i].v]]

NoBlocks == [k \in {} |-> 0]

\* State and data are the tracker's and Persist's, file is what is at Path;
\* previous is the file as Persist found it, persisted the mapping of the last
\* Persist that returned, which the file holds as long as durable
NoSp(pc) ==
  [pc |-> pc, lazyReaders |-> NoSnapReaders, State |-> NoBlocks,
   data |-> <<>>, file |-> <<>>, previous |-> <<>>,
   durable |-> FALSE, persisted |-> NoBlocks, stoppedAt |-> "none",
   reloaded |-> [ok |-> FALSE, userID |-> FALSE, blocks |-> NoBlocks]]

IdleSP == sp = NoSp("idle")

InitSP == sp = NoSp("select")

\* the pool and the consumers of its readers: a reader is tracked, loaded and
\* used, unloaded, or closed
SetReader(r) ==
  /\ sp.pc \in {"select", "copied", "open", "write"}
  /\ \E tracked \in BOOLEAN, loaded \in BOOLEAN, usedAt \in UsedAts :
       /\ loaded => tracked
       /\ IF tracked THEN usedAt >= sp.lazyReaders[r].usedAt ELSE usedAt = 0
       /\ [tracked |-> tracked, loaded |-> loaded, usedAt |-> usedAt] # sp.lazyReaders[r]
       /\ sp' = [sp EXCEPT
                   !.lazyReaders[r] = [tracked |-> tracked, loaded |-> loaded, usedAt |-> usedAt]]
  /\ FrameSP

\* a variant that copies every tracked reader
CopyEveryTrackedReader(lazyReaders) ==
  [k \in {r \in Readers : lazyReaders[r].tracked} |-> lazyReaders[k].usedAt \div Millisecond]

\* HeadersLazyLoadedTracker.CopyLazyLoadedState: a new map with the readers whose
\* reader is not nil
CopyLazyLoadedState(lazyReaders) ==
  [k \in {r \in Readers : lazyReaders[r].tracked /\ lazyReaders[r].loaded} |->
     lazyReaders[k].usedAt \div Millisecond]

\* the snapshot goroutine, under p.lazyReadersMx
SnapshotCopies ==
  /\ sp.pc = "select"
  /\ sp' = [sp EXCEPT !.pc = "copied",
              !.State = CopyLazyLoadedState(sp.lazyReaders),
              !.reloaded = NoSp("select").reloaded]
  /\ FrameSP

\* Persist: "data, err := h.State.Marshal()"
PersistMarshal ==
  /\ sp.pc = "copied"
  /\ \E data \in Marshal(sp.State) :
       sp' = [sp EXCEPT !.pc = "open", !.data = data, !.previous = sp.file]
  /\ FrameSP

\* os.WriteFile opens the file with O_WRONLY|O_CREATE|O_TRUNC
WriteFileOpen ==
  /\ sp.pc = "open"
  /\ sp' = [sp EXCEPT !.pc = "write", !.file = <<>>,
              !.durable = FALSE, !.persisted = NoBlocks]
  /\ FrameSP

\* os.WriteFile writes the data, of which one more field reaches the file
WriteFileWrite ==
  /\ sp.pc = "write" /\ Len(sp.file) < Len(sp.data)
  /\ sp' = [sp EXCEPT !.file = Append(@, sp.data[Len(sp.file) + 1])]
  /\ FrameSP

\* os.WriteFile closes the file, Persist returns
WriteFileClose ==
  /\ sp.pc = "write" /\ sp.file = sp.data
  /\ sp' = [sp EXCEPT !.pc = "select", !.data = <<>>, !.previous = <<>>,
              !.durable = TRUE, !.persisted = sp.State]
  /\ FrameSP

\* the process stops, at any point
Crash ==
  /\ sp.pc \in {"select", "copied", "open", "write"}
  /\ sp' = [sp EXCEPT !.pc = "stopped", !.stoppedAt = sp.pc,
              !.lazyReaders = NoSnapReaders, !.State = NoBlocks,
              !.reloaded = NoSp("select").reloaded]
  /\ FrameSP

\* the process starts again and reads the file at Path
Reload ==
  /\ sp.pc = "stopped"
  /\ sp' = [sp EXCEPT !.pc = "select", !.stoppedAt = "none",
              !.data = <<>>, !.previous = <<>>,
              !.reloaded = [ok |-> TRUE, userID |-> Unmarshal(sp.file).userID,
                            blocks |-> Unmarshal(sp.file).blocks]]
  /\ FrameSP

NextSP ==
  \/ \E r \in Readers : SetReader(r)
  \/ SnapshotCopies
  \/ PersistMarshal
  \/ WriteFileOpen
  \/ WriteFileWrite
  \/ WriteFileClose
  \/ Crash
  \/ Reload

----------------------------------------------------------------------------
(***************************************************************************)
(* The specifications.                                                     *)
(***************************************************************************)
\* nothing but the compactor and the push pipeline is under way
(***************************************************************************)
(* HistogramType and HistogramTypes of the continuous test: MarshalText    *)
(* and UnmarshalText.  A text is a sequence of words and separators; words *)
(* next to each other read as one longer word, which is none of the known  *)
(* ones.                                                                   *)
(***************************************************************************)
Counter == "counter"

Gauge == "gauge"

IntHistogram == "int"

FloatHistogram == "float"

histogramTypeSeparator == ","

histogramTypesSeparator == ";"

TextWords == {Counter, Gauge, IntHistogram, FloatHistogram, "foobar"}

Texts ==
  UNION {[1..n -> TextWords \cup {histogramTypeSeparator, histogramTypesSeparator}] :
           n \in 0..MaxTextLen}

HistogramTypeValues ==
  [MetricType : {Counter, Gauge}, DataType : {IntHistogram, FloatHistogram}]

HistogramTypeLists == UNION {[1..n -> HistogramTypeValues] : n \in 0..MaxTypes}

\* strings.StringsSplit(text, sep): the pieces between the separators, at least one
RECURSIVE StringsSplit(_, _)
StringsSplit(text, sep) ==
  IF \A i \in 1..Len(text) : text[i] # sep
    THEN <<text>>
    ELSE LET i == CHOOSE j \in 1..Len(text) :
                    text[j] = sep /\ \A k \in 1..(j - 1) : text[k] # sep
         IN  <<SubSeq(text, 1, i - 1)>> \o StringsSplit(SubSeq(text, i + 1, Len(text)), sep)

\* strings.StringsJoin(elems, sep)
RECURSIVE StringsJoin(_, _)
StringsJoin(elems, sep) ==
  IF elems = <<>> THEN <<>>
  ELSE IF Len(elems) = 1 THEN elems[1]
  ELSE elems[1] \o <<sep>> \o StringsJoin(Tail(elems), sep)

NilErr == [msg |-> "nil", n |-> 0, text |-> <<>>]

\* HistogramType.MarshalText
HistogramTypeMarshalText(t) == <<t.MetricType, histogramTypeSeparator, t.DataType>>

\* HistogramType.UnmarshalText: the error, and the value if there is none
HistogramTypeUnmarshalText(text) ==
  LET s == StringsSplit(text, histogramTypeSeparator)
  IN  IF Len(s) # 2
        THEN [err |-> [msg |-> "expected two parts (metrictype,datatype) but got",
                       n |-> Len(s), text |-> text],
              ht |-> <<>>]
      ELSE IF s[1] \notin {<<Counter>>, <<Gauge>>}
        THEN [err |-> [msg |-> "unrecognized metric type", n |-> 0, text |-> s[1]],
              ht |-> <<>>]
      ELSE IF s[2] \notin {<<IntHistogram>>, <<FloatHistogram>>}
        THEN [err |-> [msg |-> "unrecognized data type", n |-> 0, text |-> s[2]],
              ht |-> <<>>]
      ELSE [err |-> NilErr, ht |-> <<[MetricType |-> s[1][1], DataType |-> s[2][1]]>>]

\* a variant that marshals the types in the reverse order
RECURSIVE HistogramTypesMarshalReversed(_)
HistogramTypesMarshalReversed(hts) ==
  IF hts = <<>> THEN <<>>
  ELSE IF Len(hts) = 1 THEN HistogramTypeMarshalText(hts[1])
  ELSE HistogramTypesMarshalReversed(Tail(hts)) \o <<histogramTypesSeparator>>
         \o HistogramTypeMarshalText(hts[1])

\* HistogramTypes.MarshalText
HistogramTypesMarshalText(hts) ==
  StringsJoin([i \in 1..Len(hts) |-> HistogramTypeMarshalText(hts[i])], histogramTypesSeparator)

\* the loop of HistogramTypes.UnmarshalText over the pieces from the i-th on
RECURSIVE UnmarshalFrom(_, _, _)
UnmarshalFrom(hts, types, i) ==
  IF i > Len(types) THEN [err |-> NilErr, hts |-> hts]
  ELSE LET r == HistogramTypeUnmarshalText(types[i])
       IN  IF r.err # NilErr THEN [err |-> r.err, hts |-> hts]
           ELSE UnmarshalFrom(hts \o r.ht, types, i + 1)

\* HistogramTypes.UnmarshalText: the error, and *hts as the call leaves it
HistogramTypesUnmarshalText(hts, text) ==
  UnmarshalFrom(hts, StringsSplit(text, histogramTypesSeparator), 1)

NoHt(pc) ==
  [pc |-> pc, given |-> "none", hts |-> <<>>, text |-> <<>>,
   out |-> [err |-> NilErr, hts |-> <<>>]]

IdleHT == ht = NoHt("idle")

\* a text to unmarshal, or a list of histogram types to marshal
InitHT ==
  \/ \E text \in Texts : ht = [NoHt("new") EXCEPT !.given = "text", !.text = text]
  \/ \E hts \in HistogramTypeLists : ht = [NoHt("new") EXCEPT !.given = "list", !.hts = hts]

\* hts.MarshalText() of the given list
MarshalTextCall ==
  /\ ht.pc = "new" /\ ht.given = "list"
  /\ ht' = [ht EXCEPT !.pc = "marshalled", !.text = HistogramTypesMarshalText(ht.hts)]
  /\ FrameHT

\* "var hts HistogramTypes; err := hts.UnmarshalText(text)" on the given text or
\* on the marshalled one
UnmarshalTextCall ==
  /\ \/ ht.pc = "new" /\ ht.given = "text"
     \/ ht.pc = "marshalled"
  /\ ht' = [ht EXCEPT !.pc = "unmarshalled",
              !.out = HistogramTypesUnmarshalText(<<>>, ht.text)]
  /\ FrameHT

NextHT ==
  \/ MarshalTextCall
  \/ UnmarshalTextCall

----------------------------------------------------------------------------
(***************************************************************************)
(* Concurrent push requests and the inflight counters of the distributor.  *)
(* A request registers its cleanups with AddCleanup; the stage that        *)
(* returns without calling next runs pushReq.CleanUp() in its defer, and a  *)
(* request that push hands to DoBatch is cleaned up by DoBatch.             *)
(***************************************************************************)
Requests == 1..NumRequests

\* pc: none, limits (in limitsMiddleware, counted), bytes (its size counted too),
\* stages (in a later stage), defer (returning, the deferred CleanUp to come),
\* sending (in DoBatch), done; cleanups: what AddCleanup has registered;
\* cleaned: how often CleanUp has run; returned: the caller has its answer
NoRequest ==
  [pc |-> "none", size |-> 0, cleanups |-> {}, cleaned |-> 0, passed |-> FALSE,
   exit |-> "none", sends |-> 0, returned |-> FALSE]

NoFl(pc) ==
  [pc |-> pc, MaxInflightPushRequests |-> 0, MaxInflightPushRequestsBytes |-> 0,
   inflightPushRequests |-> 0, inflightPushRequestsBytes |-> 0,
   reqs |-> [q \in Requests |-> NoRequest]]

IdleFL == fl = NoFl("idle")

\* the instance limits: 0 is no limit
InitFL ==
  \E maxRequests \in 0..MaxInflight, maxBytes \in {0, MaxRequestSize + 1} :
    fl = [NoFl("open") EXCEPT !.MaxInflightPushRequests = maxRequests,
                              !.MaxInflightPushRequestsBytes = maxBytes]

\* a variant of the check that lets one request more pass
ExceedsByMoreThanOne(max, inflight) == max > 0 /\ inflight > max + 1

\* "il.MaxInflightPushRequests > 0 && inflight > int64(il.MaxInflightPushRequests)"
\* and the same for the bytes
Exceeds(max, inflight) == max > 0 /\ inflight > max

\* pushReq.CleanUp(): every registered cleanup runs
CleanUp(f, q) ==
  [f EXCEPT
     !.inflightPushRequests =
        IF "Dec" \in f.reqs[q].cleanups THEN @ - 1 ELSE @,
     !.inflightPushRequestsBytes =
        IF "Sub" \in f.reqs[q].cleanups THEN @ - f.reqs[q].size ELSE @,
     !.reqs[q].cleaned = @ + 1]

\* a push request arrives (again)
Arrive(q) ==
  /\ fl.pc = "open" /\ fl.reqs[q].pc \in {"none", "done"}
  /\ \E size \in 1..MaxRequestSize :
       fl' = [fl EXCEPT !.reqs[q] = [NoRequest EXCEPT !.pc = "arrived", !.size = size]]
  /\ FrameFL

\* limitsMiddleware: "inflight := d.inflightPushRequests.Inc()", AddCleanup of the
\* Dec, and the check of the value that Inc returned
LimitsInflightRequests(q) ==
  /\ fl.reqs[q].pc = "arrived"
  /\ LET inflight == fl.inflightPushRequests + 1
     IN  fl' = [fl EXCEPT
                  !.inflightPushRequests = inflight,
                  !.reqs[q] =
                     IF Exceeds(fl.MaxInflightPushRequests, inflight)
                       THEN [@ EXCEPT !.pc = "defer", !.cleanups = {"Dec"},
                                      !.exit = "errMaxInflightRequestsReached"]
                       ELSE [@ EXCEPT !.pc = "limits", !.cleanups = {"Dec"},
                                      !.passed = TRUE]]
  /\ FrameFL

\* limitsMiddleware returns an error between the two checks: the ingestion rate,
\* the tenant ID, the request rate limiter, or the parsing of the request
LimitsRejects(q) ==
  /\ fl.reqs[q].pc = "limits"
  /\ \E exit \in {"errMaxIngestionRateReached", "request rate limited", "err"} :
       fl' = [fl EXCEPT !.reqs[q] = [@ EXCEPT !.pc = "defer", !.exit = exit]]
  /\ FrameFL

\* limitsMiddleware: "inflightBytes := d.inflightPushRequestsBytes.Add(reqSize)",
\* AddCleanup of the Sub, the check, and the call of next
LimitsInflightBytes(q) ==
  /\ fl.reqs[q].pc = "limits"
  /\ LET inflightBytes == fl.inflightPushRequestsBytes + fl.reqs[q].size
     IN  fl' = [fl EXCEPT
                  !.inflightPushRequestsBytes = inflightBytes,
                  !.reqs[q] =
                     IF Exceeds(fl.MaxInflightPushRequestsBytes, inflightBytes)
                       THEN [@ EXCEPT !.pc = "defer", !.cleanups = {"Dec", "Sub"},
                                      !.exit = "errMaxInflightRequestsBytesReached"]
                       ELSE [@ EXCEPT !.pc = "stages", !.cleanups = {"Dec", "Sub"}]]
  /\ FrameFL

\* a stage after limitsMiddleware returns without calling next: an error of a
\* middleware, nothing left after validation, the ingestion rate limiter, or an
\* empty request in push
StageReturns(q) ==
  /\ fl.reqs[q].pc = "stages"
  /\ \E exit \in {"stage error", "all dropped by validation",
                  "ingestion rate limited", "empty request"} :
       fl' = [fl EXCEPT !.reqs[q] = [@ EXCEPT !.pc = "defer", !.exit = exit]]
  /\ FrameFL

\* the defer of the stage that returned: "if cleanupInDefer { pushReq.CleanUp() }",
\* and the answer goes to the caller
DeferredCleanUp(q) ==
  /\ fl.reqs[q].pc = "defer"
  /\ fl' = [CleanUp(fl, q) EXCEPT !.reqs[q].pc = "done", !.reqs[q].returned = TRUE]
  /\ FrameFL

\* a variant of push that leaves cleanupInDefer set although it hands the
\* cleanup to DoBatch
DispatchCleaningInDefer(q) ==
  /\ fl.reqs[q].pc = "stages"
  /\ \E sends \in 1..MaxSends :
       fl' = [CleanUp(fl, q) EXCEPT
                !.reqs[q].pc = "sending", !.reqs[q].exit = "fan-out",
                !.reqs[q].sends = sends]
  /\ FrameFL

\* push: "cleanupInDefer = false" and ring.DoBatch with the cleanup
\* "func() { pushReq.CleanUp(); cancel() }"
Dispatch(q) ==
  /\ fl.reqs[q].pc = "stages"
  /\ \E sends \in 1..MaxSends :
       fl' = [fl EXCEPT !.reqs[q] = [@ EXCEPT !.pc = "sending", !.exit = "fan-out",
                                              !.sends = sends]]
  /\ FrameFL

\* a per-ingester send of the fan-out returns
SendReturns(q) ==
  /\ fl.reqs[q].pc = "sending" /\ fl.reqs[q].sends > 0
  /\ fl' = [fl EXCEPT !.reqs[q].sends = @ - 1]
  /\ FrameFL

\* DoBatch returns, and with it push, however many sends are still running
PushReturns(q) ==
  /\ fl.reqs[q].pc = "sending" /\ ~fl.reqs[q].returned
  /\ fl' = [fl EXCEPT !.reqs[q].returned = TRUE,
                      !.reqs[q].pc = IF fl.reqs[q].cleaned > 0 THEN "done" ELSE @]
  /\ FrameFL

\* DoBatch calls the cleanup when every send has returned
DoBatchCleanUp(q) ==
  /\ fl.reqs[q].pc = "sending" /\ fl.reqs[q].sends = 0
  /\ fl.reqs[q].exit = "fan-out"
  /\ fl' = [CleanUp(fl, q) EXCEPT
              !.reqs[q].exit = "fan-out completed",
              !.reqs[q].pc = IF fl.reqs[q].returned THEN "done" ELSE @]
  /\ FrameFL

NextFL ==
  \/ \E q \in Requests : Arrive(q)
  \/ \E q \in Requests : LimitsInflightRequests(q)
  \/ \E q \in Requests : LimitsRejects(q)
  \/ \E q \in Requests : LimitsInflightBytes(q)
  \/ \E q \in Requests : StageReturns(q)
  \/ \E q \in Requests : DeferredCleanUp(q)
  \/ \E q \in Requests : Dispatch(q)
  \/ \E q \in Requests : SendReturns(q)
  \/ \E q \in Requests : PushReturns(q)
  \/ \E q \in Requests : DoBatchCleanUp(q)

----------------------------------------------------------------------------
(***************************************************************************)
(* Distributor.push: the keys of one request, the indexes that DoBatch     *)
(* routes to each ingester, and the request that the callback of DoBatch   *)
(* assembles for the ingester.  A series is its position in the request    *)
(* on arrival and its samples, a metadata entry its position.              *)
(***************************************************************************)
KeyTokens == 1..NumKeyTokens

SampleLists == {<<1>>, <<1, 2>>, <<2, 1>>}

NoKs(pc) ==
  [pc |-> pc, Timeseries |-> <<>>, Metadata |-> <<>>,
   seriesKeys |-> <<>>, metadataKeys |-> <<>>, replicas |-> [t \in KeyTokens |-> {}],
   keys |-> <<>>, initialMetadataIndex |-> 0,
   sent |-> [g \in Ingesters |-> [pc |-> "none", indexes |-> <<>>,
                                   timeseries |-> <<>>, metadata |-> <<>>]]]

IdleKS == ks = NoKs("idle")

\* a request with its series and metadata, the token of each of them
\* (getTokensForSeries, tokenForMetadata) and the ingesters of each token
InitKS ==
  \E n \in 0..MaxSeries, m \in 0..MaxMetadata :
    \E samples \in [1..n -> SampleLists], seriesKeys \in [1..n -> KeyTokens],
       metadataKeys \in [1..m -> KeyTokens],
       replicas \in [KeyTokens -> SUBSET Ingesters \ {{}}] :
      /\ n + m > 0
      /\ ks = [NoKs("new") EXCEPT
                 !.Timeseries = [i \in 1..n |-> [series |-> i, Samples |-> samples[i]]],
                 !.Metadata = [i \in 1..m |-> [metadata |-> i]],
                 !.seriesKeys = seriesKeys, !.metadataKeys = metadataKeys,
                 !.replicas = replicas]

\* push: "All tokens, stored in order: series, metadata."
PushKeys ==
  /\ ks.pc = "new"
  /\ ks' = [ks EXCEPT !.pc = "keys",
              !.keys = ks.seriesKeys \o ks.metadataKeys,
              !.initialMetadataIndex = Len(ks.seriesKeys)]
  /\ FrameKS

\* the indexes (from 0) of the keys whose token has ingester g among its replicas
RECURSIVE IndexesWhere(_, _, _)
IndexesWhere(keys, g, replicas) ==
  IF keys = <<>> THEN <<>>
  ELSE LET front == IndexesWhere(SubSeq(keys, 1, Len(keys) - 1), g, replicas)
       IN  IF g \in replicas[keys[Len(keys)]]
             THEN Append(front, Len(keys) - 1)
             ELSE front

\* ring.DoBatch: the indexes (from 0) of the keys whose replication set has the
\* ingester, in the order of the keys
DoBatchIndexes ==
  /\ ks.pc = "keys"
  /\ ks' = [ks EXCEPT !.pc = "batch",
              !.sent = [g \in Ingesters |->
                          [@[g] EXCEPT
                             !.indexes = IndexesWhere(ks.keys, g, ks.replicas),
                             !.pc = IF IndexesWhere(ks.keys, g, ks.replicas) = <<>>
                                      THEN "none" ELSE "callback"]]]
  /\ FrameKS

\* a variant of the callback that puts every series in front of the ones it has
RECURSIVE AssemblePrepending(_, _, _)
AssemblePrepending(k, indexes, n) ==
  IF n = 0 THEN [timeseries |-> <<>>, metadata |-> <<>>]
  ELSE LET front == AssemblePrepending(k, indexes, n - 1)
           i     == indexes[n]
       IN  IF i >= k.initialMetadataIndex
             THEN [front EXCEPT
                     !.metadata = Append(@, k.Metadata[i - k.initialMetadataIndex + 1])]
             ELSE [front EXCEPT !.timeseries = <<k.Timeseries[i + 1]>> \o @]

\* the callback of DoBatch, "for _, i := range indexes", over the first n indexes
RECURSIVE Assemble(_, _, _)
Assemble(k, indexes, n) ==
  IF n = 0 THEN [timeseries |-> <<>>, metadata |-> <<>>]
  ELSE LET front == Assemble(k, indexes, n - 1)
           i     == indexes[n]
       IN  IF i >= k.initialMetadataIndex
             THEN [front EXCEPT
                     !.metadata = Append(@, k.Metadata[i - k.initialMetadataIndex + 1])]
             ELSE [front EXCEPT !.timeseries = Append(@, k.Timeseries[i + 1])]

\* a variant of the callback that assembles the series back to front
DoBatchCallbackPrepending(k, indexes) == AssemblePrepending(k, indexes, Len(indexes))

\* the callback of DoBatch: the series and the metadata of the indexes
DoBatchCallback(k, indexes) == Assemble(k, indexes, Len(indexes))

\* the callback of DoBatch for one ingester: d.send of the assembled request
SendCallback(g) ==
  /\ ks.pc = "batch" /\ ks.sent[g].pc = "callback"
  /\ LET r == DoBatchCallback(ks, ks.sent[g].indexes)
     IN  ks' = [ks EXCEPT !.sent[g] = [@ EXCEPT !.pc = "sent",
                                                !.timeseries = r.timeseries,
                                                !.metadata = r.metadata]]
  /\ FrameKS

NextKS ==
  \/ PushKeys
  \/ DoBatchIndexes
  \/ \E g \in Ingesters : SendCallback(g)

----------------------------------------------------------------------------
(***************************************************************************)
(* One QueryLimiter: AddSeries under uniqueSeriesMx, AddChunks and         *)
(* AddChunkBytes on the atomic counters, called by concurrent goroutines.  *)
(***************************************************************************)
Callers == 1..NumCallers

QuerySeries == 1..NumQuerySeries

Amounts == 0..MaxAmount

Limits == 0..MaxLimit

\* a goroutine that is in no call of the limiter
NoCall ==
  [pc |-> "idle", op |-> "none", amount |-> 0, got |-> 0, at |-> 0, raced |-> FALSE,
   err |-> "none"]

\* no AddSeries call has returned yet
NoAdd == [series |-> 0, counted |-> FALSE, before |-> 0, err |-> "none"]

\* NewQueryLimiter(maxSeriesPerQuery, maxChunkBytesPerQuery, maxChunksPerQuery, logger)
NewQueryLimiter(maxSeriesPerQuery, maxChunkBytesPerQuery, maxChunksPerQuery) ==
  [maxSeriesPerQuery |-> maxSeriesPerQuery,
   maxChunkBytesPerQuery |-> maxChunkBytesPerQuery,
   maxChunksPerQuery |-> maxChunksPerQuery,
   uniqueSeries |-> {}, chunkBytesCount |-> 0, chunkCount |-> 0,
   call |-> [c \in Callers |-> NoCall], calls |-> 0,
   added |-> {}, last |-> NoAdd,
   sumChunks |-> 0, sumBytes |-> 0, errChunks |-> 0, errBytes |-> 0]

IdleQL == ql = NewQueryLimiter(0, 0, 0)

InitQL ==
  ql \in {NewQueryLimiter(maxS, maxB, maxC) :
           maxS \in Limits, maxB \in Limits, maxC \in Limits}

\* mimirpb.FromLabelAdaptersToLabels(seriesLabels).Hash(): the series of a query
\* are told apart by the hash of their labels
LabelsHash(series) == series

\* a variant that rejects the series that reaches the limit
SeriesLimitReached(n, max) == n >= max

\* "len(ql.uniqueSeries) > ql.maxSeriesPerQuery"
SeriesLimitExceeded(n, max) == n > max

\* QueryLimiter.AddSeries, the whole of it under uniqueSeriesMx
AddSeries ==
  /\ ql.calls < MaxLimiterCalls
  /\ \E series \in QuerySeries :
       LET fingerprint == LabelsHash(series)
           uniqueSeries == ql.uniqueSeries \cup {fingerprint}
           called == [ql EXCEPT !.calls = @ + 1, !.added = @ \cup {series},
                        !.last = [series |-> series, counted |-> series \in ql.added,
                                  before |-> Cardinality(ql.uniqueSeries), err |-> "nil"]]
       IN
       ql' = IF ql.maxSeriesPerQuery = 0 THEN called
             ELSE [called EXCEPT
                     !.uniqueSeries = uniqueSeries,
                     !.last.err =
                       IF SeriesLimitExceeded(Cardinality(uniqueSeries), ql.maxSeriesPerQuery)
                         THEN "maxSeries" ELSE "nil"]
  /\ FrameQL

\* the limit that op checks: maxChunksPerQuery or maxChunkBytesPerQuery
MaxOf(q, op) ==
  IF op = "AddChunks" THEN q.maxChunksPerQuery ELSE q.maxChunkBytesPerQuery

\* the counter that op adds to: chunkCount or chunkBytesCount
CountOf(q, op) == IF op = "AddChunks" THEN q.chunkCount ELSE q.chunkBytesCount

\* a call of AddChunks or AddChunkBytes begins: "if ql.max... == 0 {return nil}"
CallAdd(c, op, amount) ==
  /\ ql.call[c].pc \in {"idle", "returned"} /\ ql.calls < MaxLimiterCalls
  /\ ql' = [ql EXCEPT !.calls = @ + 1,
              !.call[c] = IF MaxOf(ql, op) = 0
                            THEN [NoCall EXCEPT !.pc = "returned", !.op = op,
                                                !.amount = amount, !.err = "nil"]
                            ELSE [NoCall EXCEPT !.pc = "add", !.op = op, !.amount = amount]]
  /\ FrameQL

\* QueryLimiter.AddChunks(count) is called
AddChunks(c) == \E count \in Amounts : CallAdd(c, "AddChunks", count)

\* QueryLimiter.AddChunkBytes(chunkSizeInBytes) is called
AddChunkBytes(c) ==
  \E chunkSizeInBytes \in Amounts : CallAdd(c, "AddChunkBytes", chunkSizeInBytes)

\* a variant that stores the amount instead of adding it
Int64Store(counter, delta) == delta

\* atomic.Int64.Add: the new value of the counter
Int64Add(counter, delta) == counter + delta

\* "ql.chunkCount.Add(int64(count))" or "ql.chunkBytesCount.Add(...)": one atomic step
CounterAdd(c) ==
  /\ ql.call[c].pc = "add"
  /\ LET op == ql.call[c].op
         amount == ql.call[c].amount
         new == Int64Add(CountOf(ql, op), amount)
     IN
     ql' = [ql EXCEPT
              !.chunkCount = IF op = "AddChunks" THEN new ELSE @,
              !.chunkBytesCount = IF op = "AddChunks" THEN @ ELSE new,
              !.sumChunks = IF op = "AddChunks" THEN @ + amount ELSE @,
              !.sumBytes = IF op = "AddChunks" THEN @ ELSE @ + amount,
              !.call[c].pc = "check", !.call[c].got = new,
              !.call[c].at = IF op = "AddChunks" THEN ql.sumChunks + amount
                             ELSE ql.sumBytes + amount]
  /\ FrameQL

\* a variant that rejects the call that reaches the limit
ReachesLimit(total, max) == total >= max

\* "... .Add(...) > int64(ql.max...PerQuery)"
ExceedsLimit(total, max) == total > max

\* the comparison of what Add returned with the limit, and the return
AddReturns(c) ==
  /\ ql.call[c].pc = "check"
  /\ LET op == ql.call[c].op
         failed == ExceedsLimit(ql.call[c].got, MaxOf(ql, op))
     IN
     ql' = [ql EXCEPT
              !.call[c].pc = "returned",
              !.call[c].raced = (ql.call[c].at #
                                   IF op = "AddChunks" THEN ql.sumChunks ELSE ql.sumBytes),
              !.call[c].err = IF ~failed THEN "nil"
                              ELSE IF op = "AddChunks" THEN "maxChunks" ELSE "maxChunkBytes",
              !.errChunks = IF failed /\ op = "AddChunks" THEN @ + 1 ELSE @,
              !.errBytes = IF failed /\ op # "AddChunks" THEN @ + 1 ELSE @]
  /\ FrameQL

NextQL ==
  \/ AddSeries
  \/ \E c \in Callers : AddChunks(c)
  \/ \E c \in Callers : AddChunkBytes(c)
  \/ \E c \in Callers : CounterAdd(c)
  \/ \E c \in Callers : AddReturns(c)


IdleY == IdleHT /\ IdleFL /\ IdleKS /\ IdleQL

IdleX == IdleS /\ IdleN /\ IdleK /\ IdleRP /\ IdleSP /\ IdleY

\* neither the compactor nor the push pipeline is under way
IdleCD == IdleC /\ IdleR /\ IdleU /\ IdleP /\ IdleD

InitCompact == InitC /\ IdleR /\ IdleU /\ IdleP /\ IdleD /\ IdleX

InitRing == IdleC /\ InitR /\ IdleU /\ IdleP /\ IdleD /\ IdleX

InitUsers == IdleC /\ IdleR /\ IdleU /\ IdleP /\ IdleD /\ IdleX

InitPool == IdleC /\ IdleR /\ IdleU /\ InitP /\ IdleD /\ IdleX

InitPush == IdleC /\ IdleR /\ IdleU /\ IdleP /\ InitD /\ IdleX

InitSeries == IdleCD /\ InitS /\ IdleN /\ IdleK /\ IdleRP /\ IdleSP /\ IdleY

InitSeek == IdleCD /\ InitSK /\ IdleN /\ IdleK /\ IdleRP /\ IdleSP /\ IdleY

InitSend == IdleCD /\ IdleS /\ InitN /\ IdleK /\ IdleRP /\ IdleSP /\ IdleY

InitCardinality == IdleCD /\ IdleS /\ IdleN /\ InitK /\ IdleRP /\ IdleSP /\ IdleY

InitReaders == IdleCD /\ IdleS /\ IdleN /\ IdleK /\ InitRP /\ IdleSP /\ IdleY

\* nothing but yvars is in use
IdleAll == IdleCD /\ IdleS /\ IdleN /\ IdleK /\ IdleRP /\ IdleSP

InitHistogramTypes == IdleAll /\ InitHT /\ IdleFL /\ IdleKS /\ IdleQL

InitInflight == IdleAll /\ IdleHT /\ InitFL /\ IdleKS /\ IdleQL

InitKeys == IdleAll /\ IdleHT /\ IdleFL /\ InitKS /\ IdleQL

InitLimiter == IdleAll /\ IdleHT /\ IdleFL /\ IdleKS /\ InitQL

InitSnapshot == IdleCD /\ IdleS /\ IdleN /\ IdleK /\ IdleRP /\ InitSP /\ IdleY

\* BucketCompactor.Compact on one tenant's bucket
Spec == InitCompact /\ [][NextC]_vars

\* Compact called again on the bucket it left
SpecAgain == InitCompact /\ [][NextAgain]_vars

\* the ring and the ownership answers of the instances
SpecRing == InitRing /\ [][NextR]_vars

\* the running loop of one compactor instance
SpecUsers == InitUsers /\ [][NextU]_vars

\* the goroutines of one BucketCompactor
SpecPool == InitPool /\ [][NextP]_vars

\* one push request through the middlewares of the distributor
SpecPush == InitPush /\ [][NextD]_vars

\* one series through validateSeries and under a concreteSeriesIterator
SpecSeries == InitSeries /\ [][NextS]_vars

\* Seek and Next on one concreteSeriesIterator
SpecSeek == InitSeek /\ [][NextSeek]_vars

\* the sends of one push to the ingesters
SpecSend == InitSend /\ [][NextN]_vars

\* one LabelValuesCardinality call of the distributor
SpecCardinality == InitCardinality /\ [][NextK]_vars

\* one ReaderPool, its readers and its goroutines
SpecReaders == InitReaders /\ [][NextRP]_vars

\* the reader pool with a clock that advances, goroutines that take the steps
\* they can take, and no reader whose unload fails at every attempt
FairRP ==
  /\ WF_vars(Tick)
  /\ WF_vars(closeIdleReaders)
  /\ WF_vars(SnapshotRound)
  /\ \A r \in Readers : SF_vars(unloadIfIdleSince(r))

SpecReadersLive == InitReaders /\ [][NextRP]_vars /\ FairRP

\* the snapshots of the reader pool and the file that holds them
SpecSnapshot == InitSnapshot /\ [][NextSP]_vars

\* the keys of a push and the requests assembled for the ingesters
SpecKeys == InitKeys /\ [][NextKS]_vars

\* one QueryLimiter and the goroutines that call it
SpecLimiter == InitLimiter /\ [][NextQL]_vars

\* concurrent push requests under the instance limits
SpecInflight == InitInflight /\ [][NextFL]_vars

\* the texts and lists of histogram types through MarshalText and UnmarshalText
SpecHistogramTypes == InitHistogramTypes /\ [][NextHT]_vars

----------------------------------------------------------------------------
(***************************************************************************)
(* Properties of compactUsers and of the running loop.                     *)
(***************************************************************************)

RunEnded == mc.run.result # "none" /\ mc.run.ph = "none"

\* C9 as stated: each compactUsers run increments compactionRunsStarted once and
\* one of compactionRunsCompleted and compactionRunsFailed once; it increments
\* compactionRunsCompleted only when discovery succeeded, cancellation cut no
\* part of the run short and no tenant's compaction returned an error
C9_CompletedMeansUninterrupted ==
  /\ mc.compactionRunsStarted =
       mc.compactionRunsCompleted + mc.compactionRunsFailed
         + (IF mc.run.ph # "none" THEN 1 ELSE 0)
  /\ (RunEnded /\ mc.run.result = "completed") =>
       /\ ~mc.run.discErr /\ ~mc.run.interrupted /\ ~mc.run.cut
       /\ mc.run.compactionErrorCount = 0

\* C9, the part that holds: each compactUsers run increments
\* compactionRunsStarted once and one of compactionRunsCompleted and
\* compactionRunsFailed once; compactionRunsCompleted only when discovery
\* returned no error, the loop was not left at its context check and no
\* tenant's compaction returned an error; compactionRunsFailed when a tenant's
\* compaction returned an error after its retries
C9_OneOutcomePerRun ==
  /\ mc.compactionRunsStarted =
       mc.compactionRunsCompleted + mc.compactionRunsFailed
         + (IF mc.run.ph # "none" THEN 1 ELSE 0)
  /\ mc.compactionRunsStarted = mc.runs
  /\ (RunEnded /\ mc.run.result = "completed") =>
       /\ ~mc.run.discErr /\ ~mc.run.interrupted
       /\ mc.run.compactionErrorCount = 0
  /\ (RunEnded /\ mc.run.compactionErrorCount > 0) => mc.run.result = "failed"

C9_Witness ==
  /\ RunEnded /\ mc.runs = 2
  /\ mc.compactionRunsCompleted = 1 /\ mc.compactionRunsFailed = 1
  /\ mc.run.result = "failed" /\ mc.run.compactionErrorCount = 1
  /\ mc.run.succeeded

\* C10: at most one compaction is in flight on the instance at any time, so at
\* most one of any tenant, and it is the one the current run's loop is at
C10_OneCompactionInFlight ==
  /\ \A u \in Tenants : mc.inflight[u] <= 1
  /\ Cardinality({u \in Tenants : mc.inflight[u] > 0}) <= 1
  /\ \A u \in Tenants :
       mc.inflight[u] > 0 => (mc.pc = "run" /\ mc.run.ph = "compacting" /\ mc.run.cur = u)

C10_Witness ==
  /\ mc.runs = 2
  /\ mc.run.ph = "compacting"
  /\ mc.inflight[<<97>>] = 1
  /\ Len(mc.run.users) = 2

----------------------------------------------------------------------------
(***************************************************************************)
(* Properties of runCompactionJob and of the worker loop.                  *)
(***************************************************************************)
PassEnded == cp.pc = "wait" /\ \A w \in Workers : wk[w].st = "exited"

JobErrors == cp.errChan \cup cp.jobErrs

C2_FailureStopsNoJob ==
  (PassEnded /\ JobErrors # {} /\ ~cp.maxCompactionTimeReached) =>
    hist.selected \subseteq (hist.ran \cup hist.skipped)

\* C2: by the end of a pass every job handed to a worker was executed to its
\* result or skipped by the ownership re-check, whatever failed meanwhile, and a
\* selected job is left unsent only after the dispatcher received a job error or
\* the maximum compaction time was reached
C2_HandedJobsRun ==
  PassEnded =>
    /\ hist.handed = hist.ran \cup hist.skipped
    /\ met.started = met.completed + met.failed
    /\ hist.selected # hist.handed =>
         (cp.jobErrs # {} \/ cp.maxCompactionTimeReached)

C2_Witness ==
  /\ PassEnded /\ cp.pass = 1
  /\ JobErrors = {1}
  /\ hist.ran = {1, 2}
  /\ met.completed = 1

\* C3 as stated: when an upload or a marker write of runCompactionJob failed,
\* the job returns an error and no source carries a marker written by the job;
\* markers are written only after every non-empty output block was uploaded
C3_FailedWriteLeavesNoMarker ==
  \A w \in Workers :
    /\ (wk[w].st = "ret" /\ wk[w].err \in {"upload", "mark"}) => wk[w].marked = {}
    /\ (wk[w].st = "ret" /\ (wk[w].toUp # {} \/ wk[w].todo # <<>>)) => wk[w].err # "nil"
    /\ (wk[w].marked # {} \/ (wk[w].st \in InJob /\ wk[w].mk # NoMk)) => wk[w].toUp = {}

\* C3: when an upload of runCompactionJob failed, the job returns an error and no
\* source carries a marker written by the job; when a marker write of the final
\* loop failed, the job returns an error, the sources before the failed one keep
\* the marker the job wrote and the others have none from it; markers are
\* written only after every non-empty output block was uploaded
C3_MarkersOnlyAfterUploads ==
  \A w \in Workers :
    /\ (wk[w].st = "ret" /\ wk[w].err = "upload") => wk[w].marked = {}
    /\ (wk[w].st = "ret" /\ wk[w].err = "mark") =>
         /\ wk[w].todo # <<>>
         /\ wk[w].marked = wk[w].plan \ SeqToSet(wk[w].todo)
         /\ wk[w].marked \subseteq bkt.del
    /\ (wk[w].st = "ret" /\ (wk[w].toUp # {} \/ wk[w].todo # <<>>)) => wk[w].err # "nil"
    /\ (wk[w].marked # {} \/ (wk[w].st \in InJob /\ wk[w].mk # NoMk)) =>
         /\ wk[w].toUp = {}
         /\ convertCompactionResultToForEachJobs(wk[w].outs) \subseteq Present(bkt)

C3_Witness ==
  \E w \in Workers :
    /\ wk[w].st = "ret" /\ wk[w].err = "upload"
    /\ wk[w].up # {} /\ wk[w].toUp # {}

\* C5: a job runs in a worker only when the ownJob call the worker made after it
\* received the job answered true; a job whose re-check answered false or failed
\* is skipped: it is not run, it does not increment groupCompactionRunsStarted
\* and it contributes no error to the pass
C5_RecheckedBeforeRun ==
  /\ hist.denied \cap hist.ran = {}
  /\ hist.denied = hist.skipped
  /\ hist.denied \cap JobErrors = {}
  /\ \A w \in Workers :
       wk[w].st \in InJob \cup {"ret", "repair", "nocompact"} =>
         wk[w].job \in hist.ran \ hist.denied
  /\ cp.pass = 1 => met.started = Cardinality(hist.ran \ hist.denied)

C5_Witness ==
  /\ cp.pc = "idle" /\ cp.rerr = "nil" /\ cp.pass = 1
  /\ hist.selected = {1, 2}
  /\ hist.denied = {1}
  /\ hist.ran = {2}
  /\ met.started = 1

----------------------------------------------------------------------------
(***************************************************************************)
(* Properties of the marker writes, of the sync and of repeated runs.      *)
(***************************************************************************)
\* the marker writes that have begun and have not returned
MarkersInFlight ==
  ({cp.gcMk} \cup {wk[w].mk : w \in Workers}) \ {NoMk}

\* C6 as stated: every marker write the compactor has begun is issued with a
\* fresh context, so it can still complete after the iteration context was
\* cancelled
C6_MarkerWritesDetached ==
  \A m \in MarkersInFlight : m.ctx = "fresh" /\ MarkerCanSucceed(m.ctx)

\* C7: the blocks the Syncer holds after SyncMetas and GarbageCollect have no
\* deletion marker, so a job built in a pass holds no block marked before that
\* pass; GarbageCollect has written the marker of every duplicate it removed
\* from the map, and the block whose marker is being written is still in it
C7_MarkedBlocksLeaveTheMap ==
  /\ (cp.pc = "group" \/ (cp.pc = "gc" /\ cp.gcMk = NoMk)) => sy.blocks \cap bkt.del = {}
  /\ cp.pc \in {"dispatch", "wait"} =>
       /\ (sy.blocks \cap bkt.del) \subseteq hist.passMarks
       /\ \A w \in Workers : wk[w].plan \subseteq sy.blocks
  /\ cp.pc = "gc" =>
       /\ \A id \in sy.dups : id \notin sy.blocks => id \in bkt.del
       /\ cp.gcMk # NoMk => (cp.gcMk.blk \in sy.blocks /\ cp.gcMk.blk \notin bkt.del)

C7_Witness ==
  /\ cp.pc = "dispatch" /\ cp.pass = 2
  /\ {1, 3} \subseteq bkt.del
  /\ hist.selected = {1}
  /\ JobMetas(bkt, sy.blocks, 1) # {}

\* C8 as stated: after Compact returned nil without reaching maxCompactionTime,
\* a second Compact on the unchanged bucket plans nothing, uploads no block and
\* writes no marker
C8_SecondRunDoesNothing ==
  (cp.calls = 2 /\ hist.prevOK) =>
    (~hist.planned /\ ~hist.uploaded /\ ~hist.wrote)

\* C8: after Compact returned nil without reaching maxCompactionTime, a second
\* Compact on the unchanged bucket that runs no job but those the last pass of
\* the first one ran plans nothing, uploads no block and writes no marker
C8_SameJobsSecondRunDoesNothing ==
  (cp.calls = 2 /\ hist.prevOK /\ ~hist.extra) =>
    (~hist.planned /\ ~hist.uploaded /\ ~hist.wrote)

C8_Witness ==
  /\ cp.calls = 2 /\ cp.pc = "idle" /\ cp.rerr = "nil"
  /\ hist.prevOK /\ ~hist.extra
  /\ hist.ran = {1, 2}
  /\ bkt.del # {}

----------------------------------------------------------------------------
(***************************************************************************)
(* Properties of the degree of concurrency.                                *)
(***************************************************************************)
\* the workers that execute a job
PoolExecuting == {i \in PoolIDs : pl.g[i].st \in PoolInJob}

\* C11: at most concurrency jobs execute at the same time; within a job at most
\* blockSyncConcurrency downloads are in progress at the same time, and uploads
\* only after every planned block was downloaded, at most blockSyncConcurrency
\* of them at the same time; with a concurrency <= 0 NewBucketCompactor returns
\* an error, so no worker is ever started
C11_ConcurrencyBounded ==
  /\ pl.pc \notin {"new", "invalid"} =>
       /\ pl.concurrency > 0
       /\ Cardinality(PoolExecuting) <= pl.concurrency
       /\ Cardinality({i \in PoolIDs : pl.g[i].st # "none"}) <= pl.concurrency
  /\ pl.concurrency <= 0 =>
       /\ pl.pc \in {"new", "invalid"}
       /\ \A i \in PoolIDs : pl.g[i].st = "none"
  /\ \A i \in PoolIDs :
       /\ Cardinality(pl.g[i].run) <= pl.blockSyncConcurrency
       /\ (pl.g[i].st = "foreach" /\ pl.g[i].stage = "upload") =>
            (pl.g[i].plan > 0 /\ pl.g[i].downloaded = pl.g[i].plan)
       /\ pl.g[i].st = "compact" => pl.g[i].downloaded = pl.g[i].plan

C11_Witness ==
  /\ pl.concurrency = 2 /\ pl.blockSyncConcurrency = 2
  /\ pl.queue > 0
  /\ Cardinality(PoolExecuting) = 2
  /\ pl.g[1].stage = "download" /\ Cardinality(pl.g[1].run) = 2 /\ pl.g[1].next < pl.g[1].n
  /\ pl.g[2].stage = "upload" /\ Cardinality(pl.g[2].run) = 2 /\ pl.g[2].next < pl.g[2].n

----------------------------------------------------------------------------
(***************************************************************************)
(* Properties of the wait period, of the blocks the jobs fail on and of    *)
(* the counters of the jobs.                                               *)
(***************************************************************************)
\* the blocks of job j, as built in this pass, that were uploaded within the wait
\* period
RecentBlocks(j) == JobMetas(bkt, sy.blocks, j) \cap env.recent

\* C12 as stated: no job handed to a compaction worker contains a block that was
\* uploaded within the wait period
C12_NoRecentBlockHanded ==
  \A j \in hist.handed : RecentBlocks(j) = {}

\* C12: a job handed to a compaction worker contains a block uploaded within the
\* wait period only when the wait-period check of the job failed; a job whose
\* check succeeded and found such a block is filtered out of the pass
C12_RecentOnlyAfterFailedCheck ==
  /\ hist.handed \subseteq hist.selected
  /\ \A j \in hist.selected : RecentBlocks(j) = {} \/ j \in hist.waitErr
  /\ \A j \in hist.waited : RecentBlocks(j) # {} /\ j \notin hist.selected

C12_Witness ==
  /\ hist.waited = {1} /\ hist.handed = {2}
  /\ RecentBlocks(1) = {NumBlocks}
  /\ \E w \in Workers : wk[w].st = "ret" /\ wk[w].job = 2

\* the jobs whose block with out-of-order chunks was marked no-compact in this pass
NoCompactJobs == {m.job : m \in hist.ncMarked}

\* C13: a job that fails on a block with out-of-order chunks gets the block marked
\* no-compact; when the marker is written the job sends no error, its worker does
\* not stop, finishedAllJobs is false for the rest of the pass and Compact does
\* not return nil from that pass unless the maximum compaction time was reached;
\* when the marker write fails the job's error is sent and the worker stops
C13_OutOfOrderBlockIsSkipped ==
  /\ hist.ooo = NoCompactJobs \cup hist.ncFailed
                  \cup {wk[w].job : w \in {v \in Workers : wk[v].st = "nocompact"}}
  /\ \A w \in Workers : wk[w].st = "nocompact" =>
       /\ wk[w].mk = [blk |-> wk[w].eb, kind |-> "nc", ctx |-> markForNoCompactCtx]
       /\ Health(wk[w].eb) = "ooo"
       /\ wk[w].job \notin JobErrors
  /\ \A m \in hist.ncMarked :
       /\ m.blk \in bkt.nc /\ Health(m.blk) = "ooo"
       /\ m.job \notin JobErrors /\ m.job \notin hist.ncFailed
  /\ hist.ncFailed \subseteq JobErrors
  /\ cp.pc = "dispatch" =>
       Cardinality({w \in Workers : wk[w].st = "exited"}) = Cardinality(JobErrors)
  /\ (hist.ncMarked # {} /\ cp.pc \in {"dispatch", "wait"}) => ~cp.finishedAllJobs
  /\ (hist.ncMarked # {} /\ cp.pc = "idle") =>
       (cp.rerr = "err" \/ cp.maxCompactionTimeReached)

C13_Witness ==
  /\ cp.pc = "dispatch" /\ cp.pass = 1
  /\ \E m \in hist.ncMarked :
       /\ m.job = 1
       /\ wk[m.by].st = "ret" /\ wk[m.by].job = 2 /\ wk[m.by].err = "nil"
  /\ JobErrors = {}

\* C14: the deletion marker of the broken block is written only after the
\* repaired block was verified and uploaded; a repair that failed at any stage
\* leaves the broken block unmarked and the job's error is sent; after a repair
\* that succeeded the job sends no error, the worker does not stop,
\* finishedAllJobs is false and Compact does not return nil from that pass unless
\* the maximum compaction time was reached
C14_RepairThenReplan ==
  /\ hist.i347 = {m.job : m \in hist.repaired} \cup {f.job : f \in hist.repairFailed}
                   \cup {wk[w].job : w \in {v \in Workers : wk[v].st = "repair"}}
  /\ \A w \in Workers :
       (wk[w].st = "repair" /\ wk[w].mk # NoMk) =>
         /\ wk[w].mk.blk = wk[w].eb /\ wk[w].mk.kind = "del"
         /\ wk[w].outs[1] \in (bkt.verified \cap Present(bkt))
         /\ wk[w].mk.blk \notin bkt.del
  /\ \A w \in Workers :
       (wk[w].st = "repair" /\ wk[w].mk = NoMk) => wk[w].eb \notin bkt.del
  /\ \A m \in hist.repaired :
       /\ m.blk \in bkt.del
       /\ m.resid \in (bkt.verified \cap Present(bkt))
       /\ m.job \notin JobErrors
  /\ \A f \in hist.repairFailed :
       /\ f.blk \notin bkt.del
       /\ f.job \in JobErrors
       /\ f.job \notin {m.job : m \in hist.repaired}
  /\ (hist.repaired # {} /\ cp.pc \in {"dispatch", "wait"}) => ~cp.finishedAllJobs
  /\ (hist.repaired # {} /\ cp.pc = "idle") =>
       (cp.rerr = "err" \/ cp.maxCompactionTimeReached)
  /\ (hist.repairFailed # {} /\ cp.pc = "idle") =>
       (cp.rerr = "err" /\ {f.job : f \in hist.repairFailed} \subseteq cp.jobErrs)

C14_Witness ==
  /\ cp.pc = "dispatch" /\ cp.pass = 1
  /\ \E m \in hist.repaired :
       /\ m.job = 1
       /\ wk[m.by].st = "ret" /\ wk[m.by].job = 2 /\ wk[m.by].err = "nil"
  /\ JobErrors = {}

\* C15: a job for which the planner returned no blocks completes without an
\* error: it counts in groupCompactionRunsStarted and
\* groupCompactionRunsCompleted once and not in groupCompactions, it uploads
\* nothing, writes no marker and requests no further pass; groupCompactions
\* counts exactly the completed jobs that uploaded a non-empty output block
C15_NoopJobCountsAsRun ==
  /\ \A w \in Workers :
       (wk[w].st = "ret" /\ wk[w].plan = {}) =>
         /\ wk[w].err \in {"nil", "plan"}
         /\ wk[w].up = {} /\ wk[w].marked = {} /\ wk[w].mk = NoMk
         /\ ~wk[w].rerun /\ ~hasNonZeroULIDs(wk[w].outs)
  /\ \A d \in hist.done :
       d.noop => (d.up = {} /\ d.marked = {} /\ ~d.rerun)
  /\ met.completed = Cardinality(hist.done)
  /\ met.compactions = Cardinality({d \in hist.done : d.up # {}})
  /\ met.started = met.completed + met.failed
                     + Cardinality({w \in Workers : wk[w].st \in InJob \cup {"ret"}})
  /\ (cp.pc \in {"dispatch", "wait"} /\ ~cp.finishedAllJobs) =>
       \/ \E d \in hist.done : d.pass = cp.pass /\ d.rerun /\ ~d.noop
       \/ hist.repaired # {}
       \/ hist.ncMarked # {}

C15_Witness ==
  /\ cp.pc = "idle" /\ cp.rerr = "nil" /\ cp.calls = 1 /\ cp.pass = 1
  /\ \E d \in hist.done : d.job = 2 /\ d.noop
  /\ met.started = 1 /\ met.completed = 1 /\ met.compactions = 0
  /\ cp.finishedAllJobs

----------------------------------------------------------------------------
\* the order of the stages as the specification gives it
PushStageOrder ==
  <<"limits", "metrics", "ha", "relabel", "validate", "wrappers", "dispatch">>

\* C16: for every push request the stages run in the order instance limits,
\* receive-metrics, HA dedup, relabel, validate, configured push wrappers, dispatch:
\* the stages that ran are always a prefix of that order; when a stage returned an
\* error or a response without calling the next one, it is the last stage that ran,
\* and a request that no stage stopped went through all of them.
C16_StagesRunInOrder ==
  /\ Len(ds.ran) <= Len(PushStageOrder)
  /\ ds.ran = SubSeq(PushStageOrder, 1, Len(ds.ran))
  /\ ds.stopped # "none" =>
       /\ ds.ran # <<>>
       /\ ds.ran[Len(ds.ran)] = ds.stopped
       /\ ds.pc \in {"unwind", "done"}
  /\ (ds.pc = "done" /\ ds.stopped = "none") => ds.ran = PushStageOrder

\* a request the validation stopped: the wrappers and the dispatch never ran
C16_Witness ==
  /\ ds.pc = "done"
  /\ ds.stopped = "validate"
  /\ ds.ran = <<"limits", "metrics", "ha", "relabel", "validate">>
  /\ ds.in.Timeseries # <<>>

----------------------------------------------------------------------------
\* the validation stage is over
Validated == Len(ds.ran) >= 5 /\ ds.pc # "idle"

MetadataIDs(metadata) == {metadata[i] : i \in 1..Len(metadata)}

Min(S) == CHOOSE x \in S : \A y \in S : x <= y

\* what the validation removed and kept, and the error it found first
ValidationRemovesInvalid ==
  /\ IDs(ds.req.Timeseries) =
       IDs(ds.in.Timeseries) \ (ds.relabelRemoved \cup ds.emptyRemoved \cup ds.invalid.series)
  /\ MetadataIDs(ds.req.Metadata) = MetadataIDs(ds.in.Metadata) \ ds.invalid.metadata
  /\ ds.firstPartialErr =
       IF ds.invalid.series # {}
         THEN [ds.firstPartialErr EXCEPT !.kind = "err", !.code = 400,
                                         !.id = Min(ds.invalid.series)]
       ELSE IF ds.invalid.metadata # {}
         THEN ErrResp(400, "invalidMetadata", Min(ds.invalid.metadata))
       ELSE NoResp
  /\ ds.invalid.series # {} => ds.firstPartialErr.what # "invalidMetadata"

\* the request went on to the next stage with all that the validation kept
ForwardedRemaining ==
  /\ ds.stopped # "validate"
  /\ ds.forwarded.series = IDs(ds.req.Timeseries)
  /\ ds.forwarded.metadata = MetadataIDs(ds.req.Metadata)

\* the answer when the next stage was called: its error first, else the first
\* validation error, else its response
AnswerAfterNext ==
  (ds.pc = "done" /\ ds.stopped # "validate") =>
    ds.resp = (IF ds.inner.kind = "err" THEN ds.inner
               ELSE IF ds.firstPartialErr # NoResp THEN ds.firstPartialErr
               ELSE ds.inner)

\* C17 as stated: prePushValidationMiddleware removes every series and metadata
\* entry that fails validation, forwards the remaining ones to the next stage and
\* returns the first validation error met (series in request order, then metadata),
\* unless the next stage returned an error; the remaining entries are not forwarded
\* only when there are none.
C17_RemainingAlwaysForwarded ==
  Validated =>
    /\ ValidationRemovesInvalid
    /\ AnswerAfterNext
    /\ \/ ForwardedRemaining
       \/ /\ ds.stopped = "validate"
          /\ ds.req.Timeseries = <<>> /\ ds.req.Metadata = <<>>
          /\ ds.resp = (IF ds.firstPartialErr # NoResp THEN ds.firstPartialErr ELSE OkResp)

\* C17 amended: as above, but the next stage is not called when no sample, no
\* histogram and no metadata entry is left after validation (the first validation
\* error, if any, is returned then, even if series with exemplars only are left),
\* nor when the ingestion rate limiter denies the request (status 429 is returned
\* instead of the validation error and the samples left are counted as discarded).
C17_ForwardedUnlessNothingLeftOrRateLimited ==
  Validated =>
    /\ ValidationRemovesInvalid
    /\ AnswerAfterNext
    /\ \/ /\ ForwardedRemaining
          /\ NumSamples(ds.req.Timeseries) + Len(ds.req.Metadata) > 0
       \/ /\ ds.stopped = "validate"
          /\ NumSamples(ds.req.Timeseries) = 0 /\ ds.req.Metadata = <<>>
          /\ ds.resp = (IF ds.firstPartialErr # NoResp THEN ds.firstPartialErr ELSE OkResp)
          /\ ds.forwarded.series = {} /\ ds.forwarded.metadata = {}
       \/ /\ ds.stopped = "validate"
          /\ NumSamples(ds.req.Timeseries) + Len(ds.req.Metadata) > 0
          /\ ds.resp = ErrResp(429, "ingestionRateLimited", 0)
          /\ ds.m.discardedSamplesRateLimited = NumSamples(ds.req.Timeseries)
          /\ ds.forwarded.series = {} /\ ds.forwarded.metadata = {}

\* the first of two series is invalid, the second goes to the ingesters, and the
\* request is answered with the error of the first
C17_Witness ==
  /\ ds.pc = "done"
  /\ ds.stopped = "none"
  /\ ds.invalid.series = {1}
  /\ ds.forwarded.series = {2}
  /\ ds.inner = OkResp
  /\ ds.resp = ds.firstPartialErr
  /\ ds.resp.code = 400 /\ ds.resp.id = 1

----------------------------------------------------------------------------
\* the HA stage is over
Deduped == Len(ds.ran) >= 3 /\ ds.pc # "idle"

\* C18: when the HA tracker rejects the replica of a request with replicasNotMatch,
\* prePushHaDedupeMiddleware returns HTTP 202, adds the samples and histograms of the
\* request to the deduped-samples counter and does not call the next stage; when the
\* tracker reports too many clusters it returns HTTP 400 and does not call the next
\* stage; when the tracker accepts the replica (both HA labels are present then), no
\* series of the request carries the replica label when the next stage runs, and the
\* series are otherwise as they came in.
C18_HaDedupeOutcomes ==
  Deduped =>
    /\ ds.checked = "replicasNotMatch" =>
         /\ ds.stopped = "ha" /\ ds.ran = SubSeq(PushStageOrder, 1, 3)
         /\ ds.resp.code = 202
         /\ ds.m.dedupedSamples = NumSamples(ds.in.Timeseries)
         /\ ds.req = ds.in
    /\ ds.checked = "tooManyClusters" =>
         /\ ds.stopped = "ha" /\ ds.ran = SubSeq(PushStageOrder, 1, 3)
         /\ ds.resp.code = 400
         /\ ds.m.dedupedSamples = 0
    /\ ds.checked = "nil" =>
         /\ ds.stopped # "ha"
         /\ ds.in.Timeseries[1].labels.cluster
         /\ ds.in.Timeseries[1].labels.replica # "none"
         /\ \A i \in 1..Len(ds.req.Timeseries) : ds.req.Timeseries[i].labels.replica = "none"
         /\ ds.pc = "relabel" =>
              ds.req.Timeseries =
                [i \in 1..Len(ds.in.Timeseries) |->
                   [ds.in.Timeseries[i] EXCEPT !.labels.replica = "none"]]
         /\ ds.m.dedupedSamples = 0

\* two series with the replica label, accepted by the tracker, at the relabelling
C18_Witness ==
  /\ ds.pc = "relabel"
  /\ ds.checked = "nil"
  /\ Len(ds.in.Timeseries) = 2
  /\ \A i \in 1..2 : ds.in.Timeseries[i].labels.replica = "ok"
  /\ \A i \in 1..2 : ds.req.Timeseries[i].labels.replica = "none"

----------------------------------------------------------------------------
\* the samples and histograms of the series of the arriving write with these ids
SamplesOf(ids) ==
  SumSeq([i \in 1..Len(ds.in.Timeseries) |->
            IF ds.in.Timeseries[i].id \in ids
              THEN ds.in.Timeseries[i].samples + ds.in.Timeseries[i].histograms
              ELSE 0])

DroppedByHA == ds.m.dedupedSamples + ds.m.discardedSamplesTooManyHaClusters

DroppedByRelabel == SamplesOf(ds.relabelRemoved \cup ds.emptyRemoved)

DroppedByValidation == SamplesOf(ds.invalid.series)

\* the write was turned down as a whole: by the instance limits, by a failure of the
\* HA tracker, by the ingestion rate limiter or by a push wrapper
RejectedAsAWhole ==
  \/ ds.stopped \in {"limits", "wrappers"}
  \/ ds.stopped = "ha" /\ ds.checked = "kvError"
  \/ ds.stopped = "validate" /\ ds.resp.code = 429

\* the samples handed to the dispatch are the samples counted as received, and they
\* are what came in less what the HA dedup, the relabelling and the validation dropped
SamplesAccounted ==
  /\ "metrics" \in {ds.ran[i] : i \in 1..Len(ds.ran)} =>
       ds.m.incomingSamples = NumSamples(ds.in.Timeseries)
  /\ "dispatch" \in {ds.ran[i] : i \in 1..Len(ds.ran)} =>
       ds.m.receivedSamples = NumSamples(ds.req.Timeseries)
  /\ ds.m.receivedSamples =
       ds.m.incomingSamples - DroppedByHA - DroppedByRelabel - DroppedByValidation

\* C19 as stated: for every non-empty write, the samples accepted (forwarded to
\* dispatch and counted as received) equal the samples that came in minus those
\* dropped by HA dedup, by relabelling and by validation (the distributor drops
\* nothing for a histogram and a float at the same timestamp).
C19_EveryWriteAccounted ==
  (ds.pc \in {"unwind", "done"} /\ ds.in.Timeseries # <<>>) => SamplesAccounted

\* C19 amended: the identity holds for every non-empty write that is not turned down
\* as a whole by the instance limits, by a failure of the HA tracker, by the ingestion
\* rate limiter or by a push wrapper; such a write has no accepted samples.
C19_AccountedUnlessRejected ==
  (ds.pc \in {"unwind", "done"} /\ ds.in.Timeseries # <<>>) =>
    IF RejectedAsAWhole THEN ds.m.receivedSamples = 0 ELSE SamplesAccounted

\* of two series with samples one failed validation and the other was dispatched
C19_Witness ==
  /\ ds.pc = "done"
  /\ ds.ran = PushStageOrder
  /\ ds.m.incomingSamples = 4
  /\ DroppedByValidation = 2
  /\ ds.m.receivedSamples = 2

----------------------------------------------------------------------------
\* C20 as stated: a write that contains an empty series (a series with no labels,
\* on arrival or after relabelling) is rejected with the missing-metric-name
\* validation error, whenever the validation decides the answer (the rate limiter
\* allowed the request and the next stage, if it ran, returned no error).
C20_EmptySeriesRejected ==
  (/\ ds.pc = "done" /\ Validated
   /\ ds.emptyRemoved # {}
   /\ ds.resp.code # 429 /\ ds.inner.kind # "err") =>
    ds.resp.kind = "err" /\ ds.resp.code = 400 /\ ds.resp.what = "missingMetricName"

\* C20, what holds instead: a series without labels is taken out of the request,
\* is not counted as invalid and is never the series the validation error is about.
C20_EmptySeriesDroppedSilently ==
  Validated =>
    \A id \in ds.emptyRemoved :
      /\ id \notin IDs(ds.req.Timeseries)
      /\ id \notin ds.invalid.series
      /\ id \notin ds.forwarded.series
      /\ (ds.firstPartialErr.kind = "err" /\ ds.firstPartialErr.what # "invalidMetadata")
           => ds.firstPartialErr.id # id

\* a write whose first series arrived without labels is answered with success, the
\* second series went to the ingesters
C20_Witness ==
  /\ ds.pc = "done"
  /\ Len(ds.in.Timeseries) = 2
  /\ NumLabels(ds.in.Timeseries[1].labels) = 0
  /\ ds.emptyRemoved = {1}
  /\ ds.forwarded.series = {2}
  /\ ds.resp = OkResp

----------------------------------------------------------------------------
\* C21 as stated: in the validate stage a histogram whose timestamp equals that of
\* a float sample of the same series is dropped (float wins) and every other
\* histogram is kept: what validateSeries leaves of a valid series are its floats
\* and its histograms at other timestamps than the floats.
C21_HistogramAtFloatTimestampDropped ==
  se.validated = "nil" =>
    /\ se.fwd.samples = se.series.samples
    /\ se.fwd.histograms = NotAt(se.series.histograms, se.series.samples)

\* C21 amended: in the validate stage no histogram is dropped for having the
\* timestamp of a float sample of the same series: validateSeries leaves every float
\* and every histogram of a valid series in place, whatever their timestamps.
C21_ValidateSeriesKeepsEveryHistogram ==
  se.validated = "nil" => se.fwd = se.series

\* floats at 1, 2, 3 and histograms at 3, 4, 5, 6: the four histograms are forwarded
C21_Witness ==
  /\ se.validated = "nil"
  /\ se.series.samples = <<1, 2, 3>>
  /\ se.series.histograms = <<3, 4, 5, 6>>
  /\ Len(se.fwd.samples) = 3 /\ Len(se.fwd.histograms) = 4

\* the timestamps Next returned so far
Returned_T == [i \in 1..Len(se.out) |-> se.out[i].t]

\* C30 as stated: iterating a ConcreteSeries with concreteSeriesIterator.Next returns
\* samples with strictly increasing timestamps, and where a float and a histogram of
\* the series carry the same timestamp the float is returned and the histogram is not.
C30_StrictlyIncreasingFloatWins ==
  /\ \A i \in 1..(Len(se.out) - 1) : se.out[i].t < se.out[i + 1].t
  /\ \A i \in 1..Len(se.out) :
       se.out[i].val # "ValFloat" =>
         se.out[i].t \notin {se.series.samples[k] : k \in 1..Len(se.series.samples)}

\* C30, what holds instead: the timestamps returned never decrease, every float and
\* every histogram of the series is returned once, and at equal timestamps the
\* histogram is returned, followed by the float.
C30_NonDecreasingEverySampleReturned ==
  /\ \A i \in 1..(Len(se.out) - 1) :
       \/ se.out[i].t < se.out[i + 1].t
       \/ /\ se.out[i].t = se.out[i + 1].t
          /\ se.out[i].val # "ValFloat" /\ se.out[i + 1].val = "ValFloat"
  /\ se.last # "ValNone" =>
       /\ Len(SelectSeq(se.out, LAMBDA o : o.val = "ValFloat")) = se.curFloat + 1
       /\ Len(SelectSeq(se.out, LAMBDA o : o.val # "ValFloat")) = se.curHisto + 1
  /\ se.last = "ValNone" =>
       /\ Len(SelectSeq(se.out, LAMBDA o : o.val = "ValFloat")) = Len(se.series.samples)
       /\ Len(SelectSeq(se.out, LAMBDA o : o.val # "ValFloat")) = Len(se.series.histograms)

\* floats at 1, 2, 3 and histograms at 3, 4, 5, 6 were iterated to the end: seven
\* samples were returned, the histogram at 3 before the float at 3
C30_Witness ==
  /\ se.last = "ValNone"
  /\ se.series.samples = <<1, 2, 3>>
  /\ se.series.histograms = <<3, 4, 5, 6>>
  /\ Returned_T = <<1, 2, 3, 3, 4, 5, 6>>
  /\ se.out[3].val # "ValFloat" /\ se.out[4].val = "ValFloat"

----------------------------------------------------------------------------
\* C22: the per-ingester sends of a push use a context derived from the background
\* context with the remote timeout, not from the caller's context: no send ends as
\* cancelled, whether the caller's context is cancelled or not; localCtx is
\* cancelled only by the cleanup, when every send has returned; and a send ends
\* with the 500 error exactly when it returned after the remote timeout expired.
C22_SendsDetachedFromCaller ==
  /\ \A i \in Ingesters : sn.sends[i].st # "cancelled"
  /\ sn.localCtx = "cancelled" => (Finished(sn) = Ingesters \/ sn.ret = "ringError")
  /\ (\E i \in Ingesters : sn.sends[i].st = "timeout500") => sn.localCtx = "deadline"
  /\ sn.ret = "timeout500" => \E i \in Ingesters : sn.sends[i].st = "timeout500"
  /\ sn.cleanups <= 1

\* the caller's context was cancelled while the sends were in flight, DoBatch
\* returned the caller's error, and all the sends went on to succeed
C22_Witness ==
  /\ sn.ctx = "cancelled" /\ sn.ret = "Canceled"
  /\ \A i \in Ingesters :
       /\ sn.sends[i].st = "ok"
       /\ sn.sends[i].caller = "cancelled"
  /\ sn.cleanups = 1

----------------------------------------------------------------------------
\* the series count of pair p added up over the processed ingesters of zone z
ZoneCount(p, z) ==
  SumOver([i \in Ingesters |-> cd.messages[i][p]],
          {i \in cd.processed : cd.zoneOf[i] = z})

\* C23: approximateFromZones returns the maximum of the per-zone values when
\* zoneCount > 1 and otherwise their sum divided (integer division) by the
\* replication factor, and toLabelValuesCardinalityResponse applies it to every
\* (label name, label value) pair after summing the counts of the ingesters of each
\* zone: the response has an entry for every pair some processed ingester reported,
\* and the entry is the largest per-zone sum, or the sum over all zones divided by
\* the replication factor.
C23_ApproximateFromZones ==
  cd.pc = "done" =>
    /\ DOMAIN cd.resp =
         {p \in LabelPairs : \E i \in cd.processed : cd.messages[i][p] > 0}
    /\ \A p \in DOMAIN cd.resp :
         IF cd.zoneCount > 1
           THEN /\ \A z \in Zones : cd.resp[p] >= ZoneCount(p, z)
                /\ \E z \in Zones : cd.resp[p] = ZoneCount(p, z)
           ELSE cd.resp[p] =
                  SumOver([i \in Ingesters |-> cd.messages[i][p]], cd.processed)
                    \div cd.replicationFactor

\* two zones, three ingesters: the pair's count is the larger zone's sum, which
\* neither the sum over the zones nor a single ingester's count equals
C23_Witness ==
  /\ cd.pc = "done" /\ cd.processed = Ingesters /\ cd.zoneCount = 2
  /\ cd.replicationFactor = 3
  /\ \E p \in DOMAIN cd.resp :
       /\ cd.resp[p] = 3
       /\ ZoneCount(p, "zone-a") = 3 /\ ZoneCount(p, "zone-b") = 2

----------------------------------------------------------------------------
\* a close of reader r by the idle check is in progress
Closing(r) == rp.idle.pc = "unload" /\ r \in rp.idle.todo

C26_OnlyConsumerCloseRemoves ==
  [][/\ rp'.idle # rp.idle => Tracked(rp') = Tracked(rp)
     /\ \A r \in Tracked(rp) :
          r \notin Tracked(rp') =>
            /\ rp'.lazyReaders[r].st = "closed"
            /\ rp'.idle = rp.idle /\ rp'.closed = rp.closed
            /\ \A q \in Readers \ {r} : rp'.lazyReaders[q] = rp.lazyReaders[q]
     /\ rp'.closed # rp.closed => rp'.lazyReaders = rp.lazyReaders]_vars

\* a tracked reader that the idle check closed and a use loaded again, next to one
\* that the idle check closed, after the pool was closed
C26_Witness ==
  /\ rp.closed
  /\ \E r \in Tracked(rp), q \in Tracked(rp) :
       /\ rp.lazyReaders[r].reopened /\ rp.lazyReaders[r].loaded
       /\ rp.lazyReaders[q].idleClosed

\* the goroutines of the pool have returned (or were never started)
Terminated == rp.idle.pc \in {"off", "exited"} /\ rp.snap.pc \in {"off", "exited"}

UnusedForLong(r) ==
  /\ ~rp.closed /\ r \in Tracked(rp)
  /\ rp.lazyReaders[r].loaded
  /\ rp.lazyReaders[r].age >= rp.lazyReaderIdleTimeout

\* the idle check has closed reader r
ClosedByIdleCheck(r) == ~rp.lazyReaders[r].loaded /\ rp.lazyReaders[r].idleClosed

----------------------------------------------------------------------------
\* the file holds a complete snapshot: all the fields of one marshalled state
CompleteSnapshot(file) == \E blocks \in {Unmarshal(file).blocks} : file \in Marshal(blocks)

\* C27 as stated: a crash at any point of Persist leaves the snapshot file holding
\* either the complete previous snapshot or the complete new snapshot, never an
\* empty or partly written one.
C27_PersistAtomic ==
  (sp.pc = "stopped" /\ sp.stoppedAt \in {"open", "write"}) =>
    /\ sp.file \in {sp.previous, sp.data}
    /\ sp.file # <<>> => CompleteSnapshot(sp.file)
    /\ sp.previous # <<>> => sp.file # <<>>

\* C27, what the code does: a crash in Persist leaves the previous file if the file
\* was not opened yet, else the first fields of the new snapshot, possibly none
\* (an empty file) and possibly all of them.
C27_CrashLeavesPartOfNewSnapshot ==
  (sp.pc = "stopped" /\ sp.stoppedAt \in {"open", "write"}) =>
    /\ sp.stoppedAt = "open" => sp.file = sp.previous
    /\ sp.stoppedAt = "write" =>
         /\ Len(sp.file) <= Len(sp.data)
         /\ \A i \in 1..Len(sp.file) : sp.file[i] = sp.data[i]

\* a crash in Persist left a file that is neither empty nor complete, where a
\* complete snapshot was before
C27_Witness ==
  /\ sp.pc = "stopped" /\ sp.stoppedAt = "write"
  /\ sp.previous # <<>> /\ CompleteSnapshot(sp.previous)
  /\ sp.file # <<>> /\ Len(sp.file) < Len(sp.data)
  /\ sp.file # sp.previous

\* the mapping of the given readers to usedAt in whole milliseconds
MillisOf(readers, lazyReaders) ==
  [k \in readers |-> (lazyReaders[k].usedAt - (lazyReaders[k].usedAt % Millisecond)) \div Millisecond]

\* C28 as stated: the snapshot taken by CopyLazyLoadedState maps the block ID of
\* every reader tracked by the pool to its usedAt time rounded to milliseconds, each
\* snapshot replaces the previous one entirely, and persisting it then reloading
\* it yields the same mapping.
C28_SnapshotOfEveryTrackedReader ==
  /\ [][(sp.pc = "select" /\ sp'.pc = "copied") =>
          sp'.State = MillisOf({r \in Readers : sp.lazyReaders[r].tracked}, sp.lazyReaders)]_vars
  /\ []((sp.reloaded.ok /\ sp.durable) => sp.reloaded.blocks = sp.persisted)

\* C28 amended: the snapshot maps the block ID of every tracked reader that is
\* loaded (reader # nil) to its usedAt in whole milliseconds, and holds nothing
\* else, whatever the previous snapshot held; the file of a snapshot whose Persist
\* has returned is read back as the same mapping.
C28_SnapshotOfEveryLoadedReader ==
  /\ [][(sp.pc = "select" /\ sp'.pc = "copied") =>
          sp'.State = MillisOf({r \in Readers : sp.lazyReaders[r].tracked
                                                  /\ sp.lazyReaders[r].loaded},
                               sp.lazyReaders)]_vars
  /\ [](sp.durable => Unmarshal(sp.file).blocks = sp.persisted)
  /\ []((sp.reloaded.ok /\ sp.durable) =>
          sp.reloaded.blocks = sp.persisted /\ sp.reloaded.userID)

\* a snapshot with one entry, of a time that is a millisecond or more, was
\* persisted and read back after a restart, and the next snapshot is taken of a
\* pool with a tracked reader that is not loaded
C28_Witness ==
  /\ sp.pc = "select" /\ sp.reloaded.ok /\ sp.durable
  /\ \E r \in DOMAIN sp.persisted : sp.persisted[r] > 0 /\ DOMAIN sp.persisted = {r}
  /\ \E r \in Readers : sp.lazyReaders[r].tracked /\ ~sp.lazyReaders[r].loaded
  /\ \E r \in Readers : sp.lazyReaders[r].loaded /\ sp.lazyReaders[r].usedAt % Millisecond # 0

----------------------------------------------------------------------------
\* the pieces of the text that UnmarshalText does not take for a histogram type
BadPieces(text) ==
  LET types == StringsSplit(text, histogramTypesSeparator)
  IN  {i \in 1..Len(types) :
         \/ Len(StringsSplit(types[i], histogramTypeSeparator)) # 2
         \/ StringsSplit(types[i], histogramTypeSeparator)[1] \notin {<<Counter>>, <<Gauge>>}
         \/ StringsSplit(types[i], histogramTypeSeparator)[2] \notin
              {<<IntHistogram>>, <<FloatHistogram>>}}

\* the text is the pairs of the list, in its order, with ';' between them
TextOf(hts, text) ==
  /\ Len(text) = IF hts = <<>> THEN 0 ELSE 4 * Len(hts) - 1
  /\ \A i \in 1..Len(hts) :
       /\ text[4 * i - 3] = hts[i].MetricType
       /\ text[4 * i - 2] = histogramTypeSeparator
       /\ text[4 * i - 1] = hts[i].DataType
       /\ i < Len(hts) => text[4 * i] = histogramTypesSeparator

\* what UnmarshalText returns for texts that are not lists of pairs: the error of
\* the first piece that is no histogram type
ErrorOfFirstBadPiece ==
  (ht.pc = "unmarshalled" /\ BadPieces(ht.text) # {}) =>
    LET types == StringsSplit(ht.text, histogramTypesSeparator)
        i     == CHOOSE j \in BadPieces(ht.text) : \A k \in BadPieces(ht.text) : j <= k
        s     == StringsSplit(types[i], histogramTypeSeparator)
    IN  /\ Len(s) # 2 => ht.out.err.msg = "expected two parts (metrictype,datatype) but got"
        /\ (Len(s) = 2 /\ s[1] \notin {<<Counter>>, <<Gauge>>}) =>
             ht.out.err = [msg |-> "unrecognized metric type", n |-> 0, text |-> s[1]]
        /\ (Len(s) = 2 /\ s[1] \in {<<Counter>>, <<Gauge>>}) =>
             ht.out.err = [msg |-> "unrecognized data type", n |-> 0, text |-> s[2]]

\* C31 as stated: UnmarshalText parses a ';'-separated list of 'metrictype,datatype'
\* pairs into the same sequence of HistogramType values in the same order;
\* MarshalText is its inverse for every valid list (unmarshalling the marshalled
\* text into an empty value gives the original list); an unknown metric type or
\* data type gives the error 'unrecognized metric type' or 'unrecognized data type'.
C31_MarshalUnmarshalInverse ==
  /\ (ht.pc = "unmarshalled" /\ ht.out.err = NilErr) => TextOf(ht.out.hts, ht.text)
  /\ (ht.pc = "unmarshalled" /\ \E hts \in HistogramTypeLists : TextOf(hts, ht.text)) =>
       ht.out.err = NilErr
  /\ (ht.pc = "unmarshalled" /\ ht.given = "list") =>
       ht.out.err = NilErr /\ ht.out.hts = ht.hts
  /\ ErrorOfFirstBadPiece

\* C31, what the code does: as stated for every list that is not empty; the empty
\* list is marshalled to the empty text, which UnmarshalText rejects with the
\* error of a piece that has one part instead of two.
C31_InverseUnlessEmpty ==
  /\ (ht.pc = "unmarshalled" /\ ht.out.err = NilErr) =>
       TextOf(ht.out.hts, ht.text) /\ ht.out.hts # <<>>
  /\ (ht.pc = "unmarshalled"
        /\ \E hts \in HistogramTypeLists : hts # <<>> /\ TextOf(hts, ht.text)) =>
       ht.out.err = NilErr
  /\ (ht.pc = "unmarshalled" /\ ht.given = "list" /\ ht.hts # <<>>) =>
       ht.out.err = NilErr /\ ht.out.hts = ht.hts
  /\ (ht.pc = "unmarshalled" /\ ht.text = <<>>) =>
       /\ ht.out.hts = <<>>
       /\ ht.out.err = [msg |-> "expected two parts (metrictype,datatype) but got",
                        n |-> 1, text |-> <<>>]
  /\ ErrorOfFirstBadPiece

\* a list of two different histogram types came back from its marshalled text
C31_Witness ==
  /\ ht.pc = "unmarshalled" /\ ht.given = "list"
  /\ Len(ht.hts) = 2 /\ ht.hts[1] # ht.hts[2]
  /\ ht.out.hts = ht.hts

----------------------------------------------------------------------------
\* the requests that went past the inflight-requests check and whose cleanup has
\* not run yet
PassedNotCleaned == {q \in Requests : fl.reqs[q].passed /\ fl.reqs[q].cleaned = 0}

\* C32: when MaxInflightPushRequests > 0, at every moment the number of requests
\* that have passed the inflight-requests check of limitsMiddleware and have not
\* yet run their cleanup is at most MaxInflightPushRequests; a request whose own
\* increment makes the counter exceed the cap is rejected with
\* errMaxInflightRequestsReached and reaches no later stage.
C32_InflightRequestsCapped ==
  /\ [](fl.MaxInflightPushRequests > 0 =>
          Cardinality(PassedNotCleaned) <= fl.MaxInflightPushRequests)
  /\ [][\A q \in Requests :
          (/\ fl.reqs[q].pc = "arrived" /\ fl'.reqs[q].pc # "arrived"
           /\ fl.MaxInflightPushRequests > 0
           /\ fl'.inflightPushRequests > fl.MaxInflightPushRequests) =>
            /\ fl'.reqs[q].pc = "defer" /\ ~fl'.reqs[q].passed
            /\ fl'.reqs[q].exit = "errMaxInflightRequestsReached"]_vars
  /\ [](\A q \in Requests :
          fl.reqs[q].exit = "errMaxInflightRequestsReached" =>
            fl.reqs[q].pc \in {"defer", "done"} /\ ~fl.reqs[q].passed)

\* as many requests as the cap allows are past the check, and one more is being
\* rejected
C32_Witness ==
  /\ fl.MaxInflightPushRequests = MaxInflight
  /\ Cardinality(PassedNotCleaned) = MaxInflight
  /\ \E q \in Requests :
       fl.reqs[q].pc = "defer" /\ fl.reqs[q].exit = "errMaxInflightRequestsReached"

\* the sum of the sizes of the requests in S
RECURSIVE SizeOf(_)
SizeOf(S) ==
  IF S = {} THEN 0
  ELSE LET q == CHOOSE x \in S : TRUE IN fl.reqs[q].size + SizeOf(S \ {q})

\* C33: each push request runs its cleanup exactly once on every exit path, and
\* when it is dispatched, only after every send of its fan-out has returned;
\* the two inflight counters count the requests (and their bytes) that were
\* counted and not cleaned up yet, so they are never negative and both are 0
\* whenever no request is in progress.
C33_CleanupExactlyOnce ==
  /\ \A q \in Requests :
       /\ fl.reqs[q].cleaned <= 1
       /\ fl.reqs[q].pc = "done" => fl.reqs[q].cleaned = 1
       /\ (fl.reqs[q].cleaned = 1 /\ fl.reqs[q].exit = "fan-out completed") =>
            fl.reqs[q].sends = 0
       /\ fl.reqs[q].pc \in {"arrived", "limits", "stages", "defer"} =>
            fl.reqs[q].cleaned = 0
       /\ (fl.reqs[q].pc = "sending" /\ fl.reqs[q].sends > 0) => fl.reqs[q].cleaned = 0
  /\ fl.inflightPushRequests =
       Cardinality({q \in Requests : "Dec" \in fl.reqs[q].cleanups /\ fl.reqs[q].cleaned = 0})
  /\ fl.inflightPushRequestsBytes =
       SizeOf({q \in Requests : "Sub" \in fl.reqs[q].cleanups /\ fl.reqs[q].cleaned = 0})
  /\ fl.inflightPushRequests >= 0 /\ fl.inflightPushRequestsBytes >= 0
  /\ (\A q \in Requests : fl.reqs[q].pc \in {"none", "done"}) =>
       fl.inflightPushRequests = 0 /\ fl.inflightPushRequestsBytes = 0

\* no request is in progress after one was rejected by the first check, one
\* lost all its series in validation, and one was dispatched and cleaned up by
\* DoBatch
C33_Witness ==
  /\ \A q \in Requests : fl.reqs[q].pc = "done"
  /\ \E q \in Requests : fl.reqs[q].exit = "errMaxInflightRequestsReached"
  /\ \E q \in Requests : fl.reqs[q].exit = "all dropped by validation"
  /\ \E q \in Requests : fl.reqs[q].exit = "fan-out completed"

----------------------------------------------------------------------------
\* the items, in their order, whose token has ingester g among its replicas
RECURSIVE Routed(_, _, _)
Routed(items, tokens, g) ==
  IF items = <<>> THEN <<>>
  ELSE LET rest == Routed(Tail(items), Tail(tokens), g)
       IN  IF g \in ks.replicas[tokens[1]] THEN <<items[1]>> \o rest ELSE rest

\* C34: in Distributor.push key index i < number of series denotes series i and
\* key index i >= number of series denotes metadata entry i minus the number of
\* series; the request sent to an ingester contains exactly the series and the
\* metadata whose indexes were routed to that ingester, in the order of those
\* indexes, each series with its samples in the order they had.
C34_RequestHoldsWhatWasRouted ==
  /\ ks.pc \in {"keys", "batch"} =>
       /\ Len(ks.keys) = Len(ks.Timeseries) + Len(ks.Metadata)
       /\ \A i \in 0..(Len(ks.keys) - 1) :
            ks.keys[i + 1] = IF i < Len(ks.Timeseries)
                               THEN ks.seriesKeys[i + 1]
                               ELSE ks.metadataKeys[i - Len(ks.Timeseries) + 1]
  /\ \A g \in Ingesters :
       ks.sent[g].pc = "sent" =>
         /\ ks.sent[g].timeseries = Routed(ks.Timeseries, ks.seriesKeys, g)
         /\ ks.sent[g].metadata = Routed(ks.Metadata, ks.metadataKeys, g)
         /\ Len(ks.sent[g].timeseries) + Len(ks.sent[g].metadata) = Len(ks.sent[g].indexes)

\* an ingester was sent two series, the second with samples as they came, and a
\* metadata entry, and another ingester only a part of the request
C34_Witness ==
  \E g \in Ingesters, h \in Ingesters :
    /\ ks.sent[g].pc = "sent" /\ ks.sent[h].pc = "sent"
    /\ Len(ks.sent[g].timeseries) = 2 /\ Len(ks.sent[g].metadata) >= 1
    /\ ks.sent[g].timeseries[2].Samples = <<2, 1>>
    /\ Len(ks.sent[h].timeseries) + Len(ks.sent[h].metadata) < Len(ks.keys)

----------------------------------------------------------------------------
\* the idle check takes its step on reader r, which it had listed as idle
UnloadStepOn(r) ==
  /\ rp.idle.pc = "unload" /\ r \in rp.idle.todo
  /\ rp'.idle # rp.idle
  /\ rp'.idle.pc = "select" \/ r \notin rp'.idle.todo

\* C35: if a reader is used after getIdleReadersSince(ts) listed it as idle and
\* before unloadIfIdleSince(ts) acts on it, the idle check does not close it: it
\* stays loaded with its time of use, the errNotIdle is not reported as a failure,
\* and the other readers listed by the same check are still acted on and, being
\* idle, closed (or their close fails).
C35_UsedSinceListedNotClosed ==
  /\ [][\A r \in Readers :
          (/\ UnloadStepOn(r)
           /\ rp.lazyReaders[r].loaded
           /\ rp.lazyReaders[r].age < rp.lazyReaderIdleTimeout) =>
            /\ rp'.lazyReaders[r] = [rp.lazyReaders[r] EXCEPT !.errNotIdle = TRUE]
            /\ ~rp'.lazyReaders[r].failed
            /\ \A q \in rp.idle.todo \ {r} :
                 /\ rp'.idle.pc = "unload" /\ q \in rp'.idle.todo
                 /\ rp'.lazyReaders[q] = rp.lazyReaders[q]]_vars
  /\ [][\A q \in Readers :
          (UnloadStepOn(q) /\ isIdleSince(rp.lazyReaders[q], rp.lazyReaderIdleTimeout)) =>
            \/ ~rp'.lazyReaders[q].loaded /\ rp'.lazyReaders[q].idleClosed
            \/ rp'.lazyReaders[q].failed]_vars
  /\ [](\A r \in Readers :
          rp.lazyReaders[r].errNotIdle =>
            /\ rp.lazyReaders[r].loaded /\ rp.lazyReaders[r].age = 0
            /\ ~rp.lazyReaders[r].failed /\ ~rp.lazyReaders[r].idleClosed)

\* one check listed two readers, found one of them used since and closed the other
C35_Witness ==
  /\ ~rp.closed /\ rp.idle.pc = "select"
  /\ \E r \in Tracked(rp), q \in Tracked(rp) :
       /\ rp.lazyReaders[r].errNotIdle /\ rp.lazyReaders[r].loaded
       /\ rp.lazyReaders[q].idleClosed /\ ~rp.lazyReaders[q].loaded
       /\ rp.lazyReaders[q].age = rp.lazyReaderIdleTimeout

----------------------------------------------------------------------------
(***************************************************************************)
(* Termination of BucketCompactor.Compact.                                 *)
(***************************************************************************)
\* "if maxCompactionTimeReached || finishedAllJobs {break}" is not taken: the
\* loop of passes goes round again
PassRepeats == cp.pc = "wait" /\ cp'.pc = "sync"

\* the pass has taken a block out of what the next pass plans over: a deletion
\* marker or a no-compact marker was written
PassMadeProgress == hist.passMarks # {} \/ hist.ncMarked # {}

\* a job of this pass whose compaction result was empty and that marked no source
EmptyResultJob(d) ==
  d.pass = cp.pass /\ d.rerun /\ ~d.noop /\ d.up = {} /\ d.marked = {}

\* the workers that have left "for g := range jobChan"
ExitedWorkers == {w \in Workers : wk[w].st = "exited"}

\* C36 as stated: Compact always terminates, also with maxCompactionTime = 0:
\* every pass that asks for another one has written a marker, so that the next
\* pass has fewer blocks to plan over and the loop of passes ends.
C36_RepeatedPassMadeProgress == [][PassRepeats => PassMadeProgress]_vars

\* C36, the part that holds: a worker's send on errChan never blocks (at most
\* one error per stopped worker, within the capacity c.concurrency), the
\* dispatcher with jobs left and every worker stopped has an error to receive,
\* and a pass that asks for another one has written a marker unless one of its
\* jobs had an empty compaction result and marked no source.
C36_PassEndsAndRepeatsOnlyAfterProgress ==
  /\ [](/\ Cardinality(cp.errChan \cup cp.jobErrs) <= Cardinality(ExitedWorkers)
        /\ Cardinality(cp.errChan) <= Cardinality(Workers)
        /\ (cp.pc = "dispatch" /\ cp.jobQ # <<>> /\ ExitedWorkers = Workers)
             => cp.errChan # {})
  /\ [][PassRepeats =>
          (PassMadeProgress \/ \E d \in hist.done : EmptyResultJob(d))]_vars

\* a second pass has begun after a pass whose only effect was an empty result
C36_Witness ==
  /\ cp.pass = 2 /\ cp.pc = "dispatch"
  /\ bkt.del = {} /\ bkt.nc = {}
  /\ \E d \in hist.done : d.pass = 1 /\ d.rerun /\ ~d.noop /\ d.up = {} /\ d.marked = {}

----------------------------------------------------------------------------
(***************************************************************************)
(* The counters of compaction runs.                                        *)
(***************************************************************************)
\* the workers between groupCompactionRunsStarted.Inc and the Inc of the
\* completed or of the failed counter: runCompactionJob is executing
ExecutingWorkers ==
  {w \in Workers :
     wk[w].st \in {"plan", "download", "compact", "upload", "mark", "emptydel", "ret"}}

\* C37: at every moment groupCompactionRunsStarted = groupCompactionRunsCompleted
\* + groupCompactionRunsFailed + the number of jobs executing in workers, also
\* while a failed job is being repaired or its block marked no-compact.
C37_StartedIsCompletedFailedOrExecuting ==
  met.started = met.completed + met.failed + Cardinality(ExecutingWorkers)

\* a failed job has been repaired, a run has completed, and a job is executing
C37_Witness ==
  /\ hist.repaired # {} /\ met.failed >= 1 /\ met.completed >= 1
  /\ ExecutingWorkers # {}

----------------------------------------------------------------------------
(***************************************************************************)
(* concreteSeriesIterator: Next, Seek and the accessors.                   *)
(***************************************************************************)
\* the timestamps of the floats an iterator returned, in the order returned
FloatsOf(o) ==
  LET f == SelectSeq(o, LAMBDA x : x.val = "ValFloat") IN [i \in 1..Len(f) |-> f[i].t]

\* the timestamps of the histograms an iterator returned, in the order returned
HistogramsOf(o) ==
  LET h == SelectSeq(o, LAMBDA x : x.val # "ValFloat") IN [i \in 1..Len(h) |-> h[i].t]

\* the timestamps of q that are >= t
AtOrAfter(q, t) == SelectSeq(q, LAMBDA x : x >= t)

\* q without its first element, if it has one
Rest(q) == IF q = <<>> THEN <<>> ELSE Tail(q)

\* the timestamps returned never decrease
NonDecreasing(o) == \A i \in 1..(Len(o) - 1) : o[i].t <= o[i + 1].t

\* the value type last returned names the one accessor that does not panic, and
\* that accessor returns the sample that was returned
AccessorMatches ==
  /\ se.last = "ValFloat" =>
       /\ At(se) = se.out[Len(se.out)].t
       /\ AtHistogram(se) = -1 /\ AtFloatHistogram(se) = -1
  /\ se.last = "ValHistogram" =>
       /\ AtHistogram(se) = se.out[Len(se.out)].t
       /\ At(se) = -1 /\ AtFloatHistogram(se) = -1
  /\ se.last = "ValFloatHistogram" =>
       /\ AtFloatHistogram(se) = se.out[Len(se.out)].t
       /\ At(se) = -1 /\ AtHistogram(se) = -1

\* repeated Next on a new iterator: non-decreasing, and at ValNone every float and
\* every histogram was returned once
NextReturnsEverySample ==
  se.seeks = 0 =>
    /\ NonDecreasing(se.out)
    /\ se.last = "ValNone" =>
         /\ FloatsOf(se.out) = se.series.samples
         /\ HistogramsOf(se.out) = se.series.histograms

\* Next was called after it had returned ValNone
NextAfterValNone == se.last = "ValNone" /\ se'.seeks = se.seeks /\ se' # se

\* Seek was the first call on the iterator and Next has since returned ValNone
SoughtToTheEnd ==
  se.pc = "ready" /\ se.seeks = 1 /\ se.fresh /\ se.last = "ValNone"

\* C38 as stated: repeated Next on a new iterator returns every float and every
\* histogram once in non-decreasing timestamp order and then ValNone on every
\* further call; after Seek(t) the sample Seek stops at and the samples of repeated
\* Next are exactly the samples with timestamp >= t, each once; the value type
\* returned always matches the accessor that does not panic.
C38_SeekThenNextReturnsAllFrom ==
  /\ [](/\ NextReturnsEverySample
        /\ AccessorMatches
        /\ SoughtToTheEnd =>
             /\ NonDecreasing(se.out)
             /\ FloatsOf(se.out) = AtOrAfter(se.series.samples, se.seekT)
             /\ HistogramsOf(se.out) = AtOrAfter(se.series.histograms, se.seekT))
  /\ [][NextAfterValNone => se'.last = "ValNone"]_vars

\* C38, what holds: the statements on repeated Next and on the accessors; after
\* Seek(t) as the first call, the sample Seek stops at and the samples of repeated
\* Next are the samples with timestamp >= t of the kind Seek stopped at and those
\* of the other kind except the first of them, which is never returned; and Seek
\* panics only after Next has returned ValNone.
C38_SeekSkipsFirstOfOtherKind ==
  /\ [](/\ NextReturnsEverySample
        /\ AccessorMatches
        /\ se.pc = "panicked" => se.last = "ValNone"
        /\ SoughtToTheEnd =>
             LET f == AtOrAfter(se.series.samples, se.seekT)
                 h == AtOrAfter(se.series.histograms, se.seekT)
             IN
             /\ NonDecreasing(se.out)
             /\ IF se.out = <<>> THEN f = <<>> /\ h = <<>>
                ELSE IF se.out[1].val = "ValFloat"
                  THEN FloatsOf(se.out) = f /\ HistogramsOf(se.out) = Rest(h)
                  ELSE HistogramsOf(se.out) = h /\ FloatsOf(se.out) = Rest(f))
  /\ [][NextAfterValNone => se'.last = "ValNone"]_vars

\* floats at 1, 3 and histograms at 2, 4: Seek(1) stopped at the float at 1 and
\* Next went on to the end; the histogram at 2 was not returned
C38_Witness ==
  /\ SoughtToTheEnd /\ se.seekT = 1
  /\ se.series.samples = <<1, 3>> /\ se.series.histograms = <<2, 4>>
  /\ FloatsOf(se.out) = <<1, 3>> /\ HistogramsOf(se.out) = <<4>>

----------------------------------------------------------------------------
(***************************************************************************)
(* QueryLimiter.                                                           *)
(***************************************************************************)
\* C39: with maxSeriesPerQuery = m > 0, AddSeries returns nil as long as the number
\* of distinct series added so far, the added one included, is at most m, and the
\* max-series error when it is greater; a series already counted does not change
\* the count; with m = 0 AddSeries always returns nil and records nothing.
C39_AddSeriesCountsDistinctSeries ==
  LET m == ql.maxSeriesPerQuery IN
  /\ m = 0 => ql.uniqueSeries = {} /\ ql.last.err \in {"none", "nil"}
  /\ m > 0 =>
       /\ Cardinality(ql.uniqueSeries) = Cardinality(ql.added)
       /\ ql.last.err # "none" =>
            /\ ql.last.err = "nil" <=> Cardinality(ql.added) <= m
            /\ ql.last.err = "maxSeries" <=> Cardinality(ql.added) > m
            /\ ql.last.counted => Cardinality(ql.uniqueSeries) = ql.last.before

\* with a limit of 1, three calls added two distinct series, one of them twice,
\* and the call that added the second distinct series was rejected
C39_Witness ==
  /\ ql.maxSeriesPerQuery = 1 /\ ql.calls = 3
  /\ Cardinality(ql.added) = 2 /\ ql.last.err = "maxSeries" /\ ~ql.last.counted

\* no call of AddChunks or AddChunkBytes is between its begin and its return
Quiescent == \A c \in Callers : ql.call[c].pc \in {"idle", "returned"}

\* C40: under every interleaving of concurrent AddChunks calls (and AddChunkBytes
\* calls) on a limiter with a limit > 0, a call returns an error if and only if the
\* running total including its own amount is greater than the limit; the running
\* total is the sum of all amounts added, those of rejected calls included; and
\* when the sum of all amounts exceeds the limit at least one call returned an error.
C40_ErrorIffRunningTotalExceeds ==
  /\ ql.chunkCount = ql.sumChunks /\ ql.chunkBytesCount = ql.sumBytes
  /\ \A c \in Callers :
       (ql.call[c].pc = "returned" /\ MaxOf(ql, ql.call[c].op) > 0) =>
         (ql.call[c].err # "nil" <=> ql.call[c].at > MaxOf(ql, ql.call[c].op))
  /\ (Quiescent /\ ql.maxChunksPerQuery > 0 /\ ql.sumChunks > ql.maxChunksPerQuery)
       => ql.errChunks >= 1
  /\ (Quiescent /\ ql.maxChunkBytesPerQuery > 0 /\ ql.sumBytes > ql.maxChunkBytesPerQuery)
       => ql.errBytes >= 1

\* an AddChunks call returned nil although, between its Add and its return, another
\* call had taken the total over the limit and was rejected
C40_Witness ==
  /\ Quiescent /\ ql.maxChunksPerQuery > 0
  /\ \E c, d \in Callers :
       /\ ql.call[c].op = "AddChunks" /\ ql.call[c].err = "nil" /\ ql.call[c].raced
       /\ ql.call[c].amount > 0
       /\ ql.call[d].op = "AddChunks" /\ ql.call[d].err = "maxChunks"

====
